---- MODULE Spec2Model ----
(***************************************************************************)
(* The episode state machine of the green (judge) agent:                   *)
(* green_agent/episode_manager.py, with the tool dispatcher of             *)
(* green_agent/medagent_env_adapter.py and the grader entry point          *)
(* src/server/tasks/medagentbench/eval.py.                                 *)
(*                                                                         *)
(* A Python str that the code slices, measures, concatenates or scans is   *)
(* modelled as a sequence of one-character strings ("text").  A float      *)
(* reward 0.0 / 1.0 is modelled as the integer 0 / 1.  Optional[...] is    *)
(* modelled by None / Some(x).                                             *)
(***************************************************************************)
EXTENDS Integers, Sequences, FiniteSets, TLC

None == [some |-> FALSE]
Some(x) == [some |-> TRUE, val |-> x]

\* ---------------------------------------------------------------- bounds

\* max_steps handed to EpisodeManager.__init__ (the step limit N).
MaxSteps == 2

\* Length of a long tool result (past the 500 limit of the history).
LongLen == 600

\* The model stops counting steps here: without it a run of tool calls that
\* raise would count without end.
MaxCount == 3

\* ---------------------------------------------------------------- text

DigitChars == <<"0","1","2","3","4","5","6","7","8","9">>

RECURSIVE NatToText(_)
NatToText(n) ==
    IF n < 10 THEN <<DigitChars[n + 1]>>
    ELSE NatToText(n \div 10) \o <<DigitChars[(n % 10) + 1]>>

\* str(n) of a Python int.
IntToText(n) == IF n < 0 THEN <<"-">> \o NatToText(0 - n) ELSE NatToText(n)

\* s[:n]
Prefix(s, n) == SubSeq(s, 1, IF n < Len(s) THEN n ELSE Len(s))

RECURSIVE Join(_, _)
Join(parts, sep) ==
    IF parts = <<>> THEN <<>>
    ELSE IF Len(parts) = 1 THEN parts[1]
    ELSE parts[1] \o sep \o Join(Tail(parts), sep)

\* ---------------------------------------------------------------- JSON values
\* A value decoded from JSON (what json.loads returns): str, int, bool, None,
\* dict (insertion-ordered key/value pairs) and list.

JStr(s) == [t |-> "str", s |-> s]
JNum(n) == [t |-> "num", n |-> n]
JBool(b) == [t |-> "bool", b |-> b]
JNull == [t |-> "null"]
JObj(kv) == [t |-> "obj", kv |-> kv]
JList(xs) == [t |-> "list", xs |-> xs]
KV(k, v) == [k |-> k, v |-> v]

\* Python truthiness of a decoded value (`if not x`).
Truthy(v) ==
    CASE v.t = "str" -> v.s # <<>>
      [] v.t = "num" -> v.n # 0
      [] v.t = "bool" -> v.b
      [] v.t = "null" -> FALSE
      [] v.t = "obj" -> v.kv # <<>>
      [] v.t = "list" -> v.xs # <<>>

HasKey(kv, k) == \E i \in 1..Len(kv) : kv[i].k = k

\* dict.get(k, default)
DictGet(kv, k, default) ==
    IF HasKey(kv, k) THEN kv[CHOOSE i \in 1..Len(kv) : kv[i].k = k].v ELSE default

\* json.dumps escapes of a character inside a string (ensure_ascii; the
\* model's alphabet holds no other control or non-ASCII character).
EscapeChar(c) ==
    IF c = "\"" THEN <<"\\", "\"">>
    ELSE IF c = "\\" THEN <<"\\", "\\">>
    ELSE IF c = "\n" THEN <<"\\", "n">>
    ELSE <<c>>

RECURSIVE EscapeText(_)
EscapeText(s) == IF s = <<>> THEN <<>> ELSE EscapeChar(Head(s)) \o EscapeText(Tail(s))

\* json.dumps(v) with the default separators (", " and ": ") and indent=None.
RECURSIVE json_dumps(_)
json_dumps(v) ==
    CASE v.t = "str" -> <<"\"">> \o EscapeText(v.s) \o <<"\"">>
      [] v.t = "num" -> IntToText(v.n)
      [] v.t = "bool" -> IF v.b THEN <<"t","r","u","e">> ELSE <<"f","a","l","s","e">>
      [] v.t = "null" -> <<"n","u","l","l">>
      [] v.t = "obj" ->
            <<"{">> \o Join([i \in 1..Len(v.kv) |->
                               <<"\"">> \o EscapeText(v.kv[i].k) \o <<"\"">> \o <<":"," ">>
                               \o json_dumps(v.kv[i].v)], <<","," ">>) \o <<"}">>
      [] v.t = "list" ->
            <<"[">> \o Join([i \in 1..Len(v.xs) |-> json_dumps(v.xs[i])], <<","," ">>) \o <<"]">>

\* repr of a character inside a str whose quote character is q.
ReprChar(c, q) ==
    IF c = q \/ c = "\\" THEN <<"\\", c>>
    ELSE IF c = "\n" THEN <<"\\", "n">>
    ELSE <<c>>

RECURSIVE ReprText(_, _)
ReprText(s, q) == IF s = <<>> THEN <<>> ELSE ReprChar(Head(s), q) \o ReprText(Tail(s), q)

\* repr(v): a str is quoted with ' unless it holds a ' and no ".
RECURSIVE PyRepr(_)
PyRepr(v) ==
    CASE v.t = "str" ->
            LET q == IF (\E i \in 1..Len(v.s) : v.s[i] = "'") /\ ~(\E i \in 1..Len(v.s) : v.s[i] = "\"")
                     THEN "\"" ELSE "'"
            IN  <<q>> \o ReprText(v.s, q) \o <<q>>
      [] v.t = "num" -> IntToText(v.n)
      [] v.t = "bool" -> IF v.b THEN <<"T","r","u","e">> ELSE <<"F","a","l","s","e">>
      [] v.t = "null" -> <<"N","o","n","e">>
      [] v.t = "obj" ->
            <<"{">> \o Join([i \in 1..Len(v.kv) |->
                        PyRepr(JStr(v.kv[i].k)) \o <<":"," ">> \o PyRepr(v.kv[i].v)], <<","," ">>) \o <<"}">>
      [] v.t = "list" ->
            <<"[">> \o Join([i \in 1..Len(v.xs) |-> PyRepr(v.xs[i])], <<","," ">>) \o <<"]">>

\* str(v) as an f-string renders it (a str is itself, anything else its repr).
PyStr(v) == IF v.t = "str" THEN v.s ELSE PyRepr(v)

\* ---------------------------------------------------------------- tools

post_fhir_resource == <<"p","o","s","t","_","f","h","i","r","_","r","e","s","o","u","r","c","e">>
get_patient_basic == <<"g","e","t","_","p","a","t","i","e","n","t","_","b","a","s","i","c">>
get_recent_labs == <<"g","e","t","_","r","e","c","e","n","t","_","l","a","b","s">>

\* Tools that take the single required argument patient_id.
PatientTools ==
    { get_patient_basic, <<"g","e","t","_","c","o","n","d","i","t","i","o","n","s">>, <<"s","e","a","r","c","h","_","e","n","c","o","u","n","t","e","r","s">>, <<"s","e","a","r","c","h","_","m","e","d","i","c","a","t","i","o","n","s">>,
      <<"s","e","a","r","c","h","_","p","r","o","c","e","d","u","r","e","s">>, <<"s","e","a","r","c","h","_","o","b","s","e","r","v","a","t","i","o","n","s">>, <<"s","e","a","r","c","h","_","d","i","a","g","n","o","s","t","i","c","_","r","e","p","o","r","t","s">> }

\* The names of MedAgentEnvAdapter.list_available_tools(), in order (the
\* descriptions are constant prose and are left out).
list_available_tools ==
    << get_patient_basic, get_recent_labs, <<"g","e","t","_","c","o","n","d","i","t","i","o","n","s">>, <<"s","e","a","r","c","h","_","e","n","c","o","u","n","t","e","r","s">>,
       <<"s","e","a","r","c","h","_","m","e","d","i","c","a","t","i","o","n","s">>, <<"s","e","a","r","c","h","_","p","r","o","c","e","d","u","r","e","s">>, <<"s","e","a","r","c","h","_","o","b","s","e","r","v","a","t","i","o","n","s">>,
       <<"s","e","a","r","c","h","_","d","i","a","g","n","o","s","t","i","c","_","r","e","p","o","r","t","s">>, post_fhir_resource >>

DefaultBaseUrl == <<"h","t","t","p",":","/","/","l","o","c","a","l","h","o","s","t",":","8","0","8","0","/","f","h","i","r">>

\* The base URLs an adapter is constructed with
BaseUrls == { DefaultBaseUrl, <<"h","t","t","p",":","/","/","x","/","f","h","i","r">> }

VARIABLE fhir_base_url      \* env.fhir_base_url, fixed at construction

\* repr() of the list of tool names, as the f-string of the unknown-tool error
\* renders it.
ReprNames(names) ==
    <<"[">> \o Join([i \in 1..Len(names) |-> <<"'">> \o names[i] \o <<"'">>], <<","," ">>) \o <<"]">>

Returned(text) == [raised |-> FALSE, text |-> text]
Raised == [raised |-> TRUE]

\* What the FHIR server makes of a request, as far as a _tool_* method shows
\* it: the method returns a text (the English summary of a 200 response, or
\* an "Error: ..." text for a connection failure, a non-200 status or a body
\* that is not JSON), or an exception escapes it (a 200 response whose JSON is
\* not of the expected shape, e.g. a list: only RequestException and
\* ValueError are caught).
ServerReturns(text) == [raises |-> FALSE, text |-> text]
ServerRaises == [raises |-> TRUE]

\* The _tool_* methods that read a patient: no request for patient "UNKNOWN".
tool_get(name, patient_id, srv) ==
    IF patient_id = JStr(<<"U","N","K","N","O","W","N">>) THEN
        IF name = get_patient_basic
        THEN Returned(<<"P","a","t","i","e","n","t"," ","I","D"," ","i","s"," ","u","n","k","n","o","w","n","."," ","C","a","n","n","o","t"," ","q","u","e","r","y"," ","F","H","I","R"," ","s","e","r","v","e","r","."," ","T","h","i","s"," ","t","y","p","i","c","a","l","l","y"," ","m","e","a","n","s"," ","t","h","e"," ","p","a","t","i","e","n","t"," ","d","o","e","s"," ","n","o","t"," ","e","x","i","s","t"," ","i","n"," ","t","h","e"," ","s","y","s","t","e","m",".">>)
        ELSE Returned(<<"P","a","t","i","e","n","t"," ","I","D"," ","i","s"," ","u","n","k","n","o","w","n","."," ","C","a","n","n","o","t"," ","q","u","e","r","y"," ","F","H","I","R"," ","s","e","r","v","e","r",".">>)
    ELSE IF srv.raises THEN Raised ELSE Returned(srv.text)

tool_post_fhir_resource(resource_type, payload, srv) ==
    IF srv.raises THEN Raised ELSE Returned(srv.text)

\* a dispatch that raises for a name it does not know and for an argument
\* that is not there
handle_tool_call_raising(action, srv) ==
    IF action.tool_name \in PatientTools /\ HasKey(action.arguments, <<"p","a","t","i","e","n","t","_","i","d">>)
    THEN tool_get(action.tool_name, DictGet(action.arguments, <<"p","a","t","i","e","n","t","_","i","d">>, JNull), srv)
    ELSE Raised

\* MedAgentEnvAdapter.handle_tool_call: dispatch on the tool name; a missing
\* (falsy) required argument and an unknown name are reported as texts.
handle_tool_call(action, srv) ==
    LET name == action.tool_name
        args == action.arguments
        patient_id == DictGet(args, <<"p","a","t","i","e","n","t","_","i","d">>, JNull)
        lab_code == DictGet(args, <<"l","a","b","_","c","o","d","e">>, JNull)
        resource_type == DictGet(args, <<"r","e","s","o","u","r","c","e","_","t","y","p","e">>, JNull)
        payload == DictGet(args, <<"p","a","y","l","o","a","d">>, JNull)
    IN  IF name \in PatientTools THEN
            IF ~Truthy(patient_id)
            THEN Returned(<<"E","r","r","o","r",":"," ","T","o","o","l"," ","'">> \o name \o <<"'"," ","r","e","q","u","i","r","e","s"," ","a","r","g","u","m","e","n","t"," ","'","p","a","t","i","e","n","t","_","i","d","'",".">>)
            ELSE tool_get(name, patient_id, srv)
        ELSE IF name = get_recent_labs THEN
            IF ~Truthy(patient_id) \/ ~Truthy(lab_code)
            THEN Returned(<<"E","r","r","o","r",":"," ","T","o","o","l"," ","'","g","e","t","_","r","e","c","e","n","t","_","l","a","b","s","'"," ","r","e","q","u","i","r","e","s"," ","a","r","g","u","m","e","n","t","s"," ","'","p","a","t","i","e","n","t","_","i","d","'"," ","a","n","d"," ","'","l","a","b","_","c","o","d","e","'",".">>)
            ELSE tool_get(name, patient_id, srv)
        ELSE IF name = post_fhir_resource THEN
            IF ~Truthy(resource_type) \/ ~Truthy(payload)
            THEN Returned(<<"E","r","r","o","r",":"," ","T","o","o","l"," ","'","p","o","s","t","_","f","h","i","r","_","r","e","s","o","u","r","c","e","'"," ","r","e","q","u","i","r","e","s"," ","a","r","g","u","m","e","n","t","s"," ","'","r","e","s","o","u","r","c","e","_","t","y","p","e","'"," ","a","n","d"," ","'","p","a","y","l","o","a","d","'",".">>)
            ELSE tool_post_fhir_resource(resource_type, payload, srv)
        ELSE Returned(<<"E","r","r","o","r",":"," ","U","n","k","n","o","w","n"," ","t","o","o","l"," ","'">> \o name \o <<"'","."," ","A","v","a","i","l","a","b","l","e"," ","t","o","o","l","s",":"," ">>
                      \o ReprNames(list_available_tools))

\* ---------------------------------------------------------------- history rendering

HistoryItem(role, content) == [role |-> role, content |-> content]

POST_ACK == <<"P","O","S","T"," ","r","e","q","u","e","s","t"," ","a","c","c","e","p","t","e","d"," ","a","n","d"," ","e","x","e","c","u","t","e","d"," ","s","u","c","c","e","s","s","f","u","l","l","y">>

\* The history limit of a tool result (result_text[:500]).
TruncLimit == 500

\* empty arguments rendered as nothing at all
format_tool_call_bare_args(action) ==
    IF action.tool_name = post_fhir_resource THEN
        LET args == action.arguments
            resource_type == DictGet(args, <<"r","e","s","o","u","r","c","e","_","t","y","p","e">>, JStr(<<"U","n","k","n","o","w","n">>))
            payload == DictGet(args, <<"p","a","y","l","o","a","d">>, JObj(<<>>))
            url == fhir_base_url \o <<"/">> \o PyStr(resource_type)
        IN  <<"P","O","S","T"," ">> \o url \o <<"\n">> \o json_dumps(payload)
    ELSE
        LET args_str == IF action.arguments # <<>>
                        THEN json_dumps(JObj(action.arguments)) ELSE <<>>
        IN  <<"G","E","T"," ">> \o action.tool_name \o <<" ","w","i","t","h"," ","a","r","g","u","m","e","n","t","s",":"," ">> \o args_str

\* the request line and the payload put on one line
format_tool_call_one_line(action) ==
    IF action.tool_name = post_fhir_resource THEN
        LET args == action.arguments
            resource_type == DictGet(args, <<"r","e","s","o","u","r","c","e","_","t","y","p","e">>, JStr(<<"U","n","k","n","o","w","n">>))
            payload == DictGet(args, <<"p","a","y","l","o","a","d">>, JObj(<<>>))
            url == fhir_base_url \o <<"/">> \o PyStr(resource_type)
        IN  <<"P","O","S","T"," ">> \o url \o <<" ">> \o json_dumps(payload)
    ELSE
        <<"G","E","T"," ">> \o action.tool_name \o <<" ","w","i","t","h"," ","a","r","g","u","m","e","n","t","s",":"," ">> \o json_dumps(JObj(action.arguments))

\* EpisodeManager._format_tool_call_for_history
format_tool_call_for_history(action) ==
    IF action.tool_name = post_fhir_resource THEN
        LET args == action.arguments
            resource_type == DictGet(args, <<"r","e","s","o","u","r","c","e","_","t","y","p","e">>, JStr(<<"U","n","k","n","o","w","n">>))
            payload == DictGet(args, <<"p","a","y","l","o","a","d">>, JObj(<<>>))
            url == fhir_base_url \o <<"/">> \o PyStr(resource_type)
        IN  <<"P","O","S","T"," ">> \o url \o <<"\n">> \o json_dumps(payload)
    ELSE
        LET args_str == IF action.arguments # <<>>
                        THEN json_dumps(JObj(action.arguments)) ELSE <<"{","}">>
        IN  <<"G","E","T"," ">> \o action.tool_name \o <<" ","w","i","t","h"," ","a","r","g","u","m","e","n","t","s",":"," ">> \o args_str

\* a slice that stops one character short
result_brief_short(result_text) ==
    IF Len(result_text) > TruncLimit THEN Prefix(result_text, TruncLimit - 1) ELSE result_text

\* result_text[:500] if len(result_text) > 500 else result_text
result_brief(result_text) ==
    IF Len(result_text) > TruncLimit THEN Prefix(result_text, TruncLimit) ELSE result_text

\* ---------------------------------------------------------------- json.loads
\* A recursive-descent reading of the JSON grammar as Python's json module
\* decodes it.  Texts of the model hold no fraction or exponent, no \u escape
\* and no NaN / Infinity literal; numbers are integers.

Fail == [ok |-> FALSE]
Parsed(v, pos) == [ok |-> TRUE, val |-> v, pos |-> pos]

IsWs(c) == c \in {" ", "\n", "\t", "\r"}
IsDigit(c) == c \in {"0","1","2","3","4","5","6","7","8","9"}
DigitVal(c) == CHOOSE d \in 0..9 : DigitChars[d + 1] = c

RECURSIVE SkipWs(_, _)
SkipWs(s, i) == IF i <= Len(s) /\ IsWs(s[i]) THEN SkipWs(s, i + 1) ELSE i

\* s[i..] starts with the text w
StartsAt(s, i, w) == i + Len(w) - 1 <= Len(s) /\ SubSeq(s, i, i + Len(w) - 1) = w

\* The body of a string literal from position i (after the opening quote),
\* acc being the characters decoded so far.
RECURSIVE ParseStringBody(_, _, _)
ParseStringBody(s, i, acc) ==
    IF i > Len(s) THEN Fail
    ELSE IF s[i] = "\"" THEN Parsed(JStr(acc), i + 1)
    ELSE IF s[i] = "\\" THEN
        IF i + 1 > Len(s) THEN Fail
        ELSE IF s[i + 1] \in {"\"", "\\", "/"} THEN ParseStringBody(s, i + 2, Append(acc, s[i + 1]))
        ELSE IF s[i + 1] = "n" THEN ParseStringBody(s, i + 2, Append(acc, "\n"))
        ELSE IF s[i + 1] = "t" THEN ParseStringBody(s, i + 2, Append(acc, "\t"))
        ELSE IF s[i + 1] = "r" THEN ParseStringBody(s, i + 2, Append(acc, "\r"))
        ELSE Fail
    ELSE IF s[i] \in {"\n", "\t", "\r"} THEN Fail   \* control character in a string
    ELSE ParseStringBody(s, i + 1, Append(acc, s[i]))

RECURSIVE ParseDigits(_, _, _)
ParseDigits(s, i, acc) ==
    IF i <= Len(s) /\ IsDigit(s[i]) THEN ParseDigits(s, i + 1, 10 * acc + DigitVal(s[i]))
    ELSE Parsed(JNum(acc), i)

\* -?(0|[1-9][0-9]*) at position i
ParseNumber(s, i) ==
    LET neg == i <= Len(s) /\ s[i] = "-"
        j == IF neg THEN i + 1 ELSE i
    IN  IF j > Len(s) \/ ~IsDigit(s[j]) THEN Fail
        ELSE LET r == IF s[j] = "0" THEN Parsed(JNum(0), j + 1) ELSE ParseDigits(s, j, 0)
             IN  IF neg THEN Parsed(JNum(0 - r.val.n), r.pos) ELSE r

RECURSIVE ParseValue(_, _), ParseListItems(_, _, _), ParseObjItems(_, _, _)

\* One value starting exactly at position i.
ParseValue(s, i) ==
    IF i > Len(s) THEN Fail
    ELSE IF s[i] = "\"" THEN ParseStringBody(s, i + 1, <<>>)
    ELSE IF s[i] = "[" THEN
        LET j == SkipWs(s, i + 1)
        IN  IF j <= Len(s) /\ s[j] = "]" THEN Parsed(JList(<<>>), j + 1)
            ELSE ParseListItems(s, j, <<>>)
    ELSE IF s[i] = "{" THEN
        LET j == SkipWs(s, i + 1)
        IN  IF j <= Len(s) /\ s[j] = "}" THEN Parsed(JObj(<<>>), j + 1)
            ELSE ParseObjItems(s, j, <<>>)
    ELSE IF StartsAt(s, i, <<"t","r","u","e">>) THEN Parsed(JBool(TRUE), i + 4)
    ELSE IF StartsAt(s, i, <<"f","a","l","s","e">>) THEN Parsed(JBool(FALSE), i + 5)
    ELSE IF StartsAt(s, i, <<"n","u","l","l">>) THEN Parsed(JNull, i + 4)
    ELSE ParseNumber(s, i)

\* The items of a list from position i (an item is due there).
ParseListItems(s, i, acc) ==
    LET r == ParseValue(s, i)
    IN  IF ~r.ok THEN Fail
        ELSE LET j == SkipWs(s, r.pos)
                 xs == Append(acc, r.val)
             IN  IF j > Len(s) THEN Fail
                 ELSE IF s[j] = "]" THEN Parsed(JList(xs), j + 1)
                 ELSE IF s[j] = "," THEN ParseListItems(s, SkipWs(s, j + 1), xs)
                 ELSE Fail

\* dict[k] = v: a repeated key keeps its place and takes the later value.
DictSet(kv, k, v) ==
    IF HasKey(kv, k) THEN [i \in 1..Len(kv) |-> IF kv[i].k = k THEN KV(k, v) ELSE kv[i]]
    ELSE Append(kv, KV(k, v))

\* The members of an object from position i (a key is due there).
ParseObjItems(s, i, acc) ==
    IF i > Len(s) \/ s[i] # "\"" THEN Fail
    ELSE LET k == ParseStringBody(s, i + 1, <<>>)
         IN  IF ~k.ok THEN Fail
             ELSE LET c == SkipWs(s, k.pos)
                  IN  IF c > Len(s) \/ s[c] # ":" THEN Fail
                      ELSE LET r == ParseValue(s, SkipWs(s, c + 1))
                           IN  IF ~r.ok THEN Fail
                               ELSE LET j == SkipWs(s, r.pos)
                                        kv == DictSet(acc, k.val.s, r.val)
                                    IN  IF j > Len(s) THEN Fail
                                        ELSE IF s[j] = "}" THEN Parsed(JObj(kv), j + 1)
                                        ELSE IF s[j] = "," THEN ParseObjItems(s, SkipWs(s, j + 1), kv)
                                        ELSE Fail

\* json.loads(s): one value, surrounded by optional whitespace, and nothing
\* else.  Fail stands for the JSONDecodeError.
json_loads(s) ==
    LET r == ParseValue(s, SkipWs(s, 1))
    IN  IF r.ok /\ SkipWs(s, r.pos) = Len(s) + 1 THEN Parsed(r.val, r.pos) ELSE Fail

\* ---------------------------------------------------------------- answer extraction
\* EpisodeManager._extract_answer_from_summary: the four strategies, each
\* regular expression read as Python's re module matches it on ASCII text.

UpperChars == <<"A","B","C","D","E","F","G","H","I","J","K","L","M","N","O","P","Q","R","S","T","U","V","W","X","Y","Z">>
LowerChars == <<"a","b","c","d","e","f","g","h","i","j","k","l","m","n","o","p","q","r","s","t","u","v","w","x","y","z">>

IsUpper(c) == \E i \in 1..26 : UpperChars[i] = c
IsLower(c) == \E i \in 1..26 : LowerChars[i] = c
Lower(c) == IF IsUpper(c) THEN LowerChars[CHOOSE i \in 1..26 : UpperChars[i] = c] ELSE c

\* [A-Z0-9] under re.IGNORECASE, and \w
IsAlnum(c) == IsUpper(c) \/ IsLower(c) \/ IsDigit(c)
IsWord(c) == IsAlnum(c) \/ c = "_"

\* The least position of a set of positions, 0 when the set is empty
First(positions) ==
    IF positions = {} THEN 0 ELSE CHOOSE k \in positions : \A j \in positions : k <= j

\* s[i..] starts with the lower-case text w, ignoring case
StartsAtNoCase(s, i, w) ==
    /\ i + Len(w) - 1 <= Len(s)
    /\ \A k \in 1..Len(w) : Lower(s[i + k - 1]) = w[k]

\* \b between positions i-1 and i (i in 1..Len(s)+1)
WordBoundary(s, i) ==
    LET before == i > 1 /\ IsWord(s[i - 1])
        after == i <= Len(s) /\ IsWord(s[i])
    IN  before # after

\* Strategy 1.  \[(?:[^\[\]]*|\[[^\[\]]*\])*\]  tried at s[i] = "[": the index
\* of the closing bracket of the match, 0 when there is none.
RECURSIVE InnerBracketEnd(_, _)
InnerBracketEnd(s, k) ==
    IF k > Len(s) THEN 0
    ELSE IF s[k] = "]" THEN k
    ELSE IF s[k] = "[" THEN 0
    ELSE InnerBracketEnd(s, k + 1)

RECURSIVE OuterBracketEnd(_, _)
OuterBracketEnd(s, j) ==
    IF j > Len(s) THEN 0
    ELSE IF s[j] = "]" THEN j
    ELSE IF s[j] = "[" THEN
        LET k == InnerBracketEnd(s, j + 1)
        IN  IF k = 0 THEN 0 ELSE OuterBracketEnd(s, k + 1)
    ELSE OuterBracketEnd(s, j + 1)

\* re.findall from position i on: the first match that json.loads decodes
\* (a decoded match starts with "[" and so is a list).
RECURSIVE FirstBracketList(_, _)
FirstBracketList(s, i) ==
    LET k == First({j \in i..Len(s) : s[j] = "["})
    IN  IF k = 0 THEN None
        ELSE LET e == OuterBracketEnd(s, k + 1)
             IN  IF e = 0 THEN FirstBracketList(s, k + 1)
                 ELSE LET r == json_loads(SubSeq(s, k, e))
                      IN  IF r.ok THEN Some(r.val) ELSE FirstBracketList(s, e + 1)

\* the first of two optional results that is there
FirstSome(a, b) == IF a.some THEN a ELSE b

\* parsed if isinstance(parsed, list) else [parsed]
AsList(v) == IF v.t = "list" THEN v ELSE JList(<<v>>)

\* what strategies 2 and 3 make of a json.loads result
DecodedAsList(r) == IF r.ok THEN Some(AsList(r.val)) ELSE None

\* Strategy 2.  FINISH\s*\((.*?)\)  ignoring case, at position i: group 1
\* (the text up to the first ")" on the same line), or None.
RECURSIVE LazyToParen(_, _, _)
LazyToParen(s, open, j) ==
    IF j > Len(s) \/ s[j] = "\n" THEN None
    ELSE IF s[j] = ")" THEN Some(SubSeq(s, open + 1, j - 1))
    ELSE LazyToParen(s, open, j + 1)

FinishGroupAt(s, i) ==
    IF ~StartsAtNoCase(s, i, <<"f","i","n","i","s","h">>) THEN None
    ELSE LET p == SkipWs(s, i + 6)
         IN  IF p > Len(s) \/ s[p] # "(" THEN None ELSE LazyToParen(s, p, p + 1)

\* re.search: the leftmost position with a match
FinishSearch(s, i) ==
    LET k == First({j \in i..Len(s) : FinishGroupAt(s, j).some})
    IN  IF k = 0 THEN None ELSE FinishGroupAt(s, k)

\* Strategy 4, first pattern.
\* (?:answer|result|mrn|value)(?:\s+is)?:?\s*["']?([A-Z0-9][A-Z0-9\-]+)
RECURSIVE RunEnd(_, _)
\* last index of the run of [A-Z0-9\-] that starts at k
RunEnd(s, k) ==
    IF k + 1 <= Len(s) /\ (IsAlnum(s[k + 1]) \/ s[k + 1] = "-") THEN RunEnd(s, k + 1) ELSE k

\* :?\s*["']?([A-Z0-9][A-Z0-9\-]+) at position j: group 1, or None
LabelValueAt(s, j) ==
    LET a == IF j <= Len(s) /\ s[j] = ":" THEN j + 1 ELSE j
        b == SkipWs(s, a)
        c == IF b <= Len(s) /\ s[b] \in {"\"", "'"} THEN b + 1 ELSE b
    IN  IF c + 1 <= Len(s) /\ IsAlnum(s[c]) /\ (IsAlnum(s[c + 1]) \/ s[c + 1] = "-")
        THEN Some(SubSeq(s, c, RunEnd(s, c)))
        ELSE None

Labels == { <<"a","n","s","w","e","r">>, <<"r","e","s","u","l","t">>, <<"m","r","n">>, <<"v","a","l","u","e">> }

\* the pattern at position i: with the optional "\s+is" first, then without
LabelMatchAt(s, i) ==
    IF \A w \in Labels : ~StartsAtNoCase(s, i, w) THEN None
    ELSE LET w == CHOOSE w \in Labels : StartsAtNoCase(s, i, w)
             j == i + Len(w)
             k == SkipWs(s, j)
         IN  FirstSome(IF k > j /\ StartsAtNoCase(s, k, <<"i","s">>)
                       THEN LabelValueAt(s, k + 2) ELSE None,
                       LabelValueAt(s, j))

\* re.search: the leftmost position with a match
LabelSearch(s, i) ==
    LET k == First({j \in i..Len(s) : LabelMatchAt(s, j).some})
    IN  IF k = 0 THEN None ELSE LabelMatchAt(s, k)

\* Strategy 4, second pattern.  \b([S][0-9]{7})\b  ignoring case
MrnAt(s, i) ==
    IF /\ i + 7 <= Len(s)
       /\ Lower(s[i]) = "s"
       /\ \A k \in 1..7 : IsDigit(s[i + k])
       /\ WordBoundary(s, i)
       /\ WordBoundary(s, i + 8)
    THEN Some(SubSeq(s, i, i + 7)) ELSE None

MrnSearch(s, i) ==
    LET k == First({j \in i..Len(s) : MrnAt(s, j).some})
    IN  IF k = 0 THEN None ELSE MrnAt(s, k)

\* Strategy 4, third pattern.  \b([0-9]+(?:\.[0-9]+)?)\b
RECURSIVE DigitRunEnd(_, _)
DigitRunEnd(s, k) == IF k + 1 <= Len(s) /\ IsDigit(s[k + 1]) THEN DigitRunEnd(s, k + 1) ELSE k

NumberAt(s, i) ==
    IF ~(IsDigit(s[i]) /\ WordBoundary(s, i)) THEN None
    ELSE LET q == DigitRunEnd(s, i)
             frac == q + 2 <= Len(s) /\ s[q + 1] = "." /\ IsDigit(s[q + 2])
             r == IF frac THEN DigitRunEnd(s, q + 2) ELSE q
         IN  IF frac /\ WordBoundary(s, r + 1) THEN Some(SubSeq(s, i, r))
             ELSE IF WordBoundary(s, q + 1) THEN Some(SubSeq(s, i, q))
             ELSE None

NumberSearch(s, i) ==
    LET k == First({j \in i..Len(s) : NumberAt(s, j).some})
    IN  IF k = 0 THEN None ELSE NumberAt(s, k)

\* str.rstrip('.,;:!?')
RECURSIVE RStripPunct(_)
RStripPunct(s) ==
    IF s # <<>> /\ s[Len(s)] \in {".", ",", ";", ":", "!", "?"}
    THEN RStripPunct(SubSeq(s, 1, Len(s) - 1)) ELSE s

\* text.strip()
RECURSIVE RStripWs(_)
RStripWs(s) == IF s # <<>> /\ IsWs(s[Len(s)]) THEN RStripWs(SubSeq(s, 1, Len(s) - 1)) ELSE s
Strip(s) == LET t == RStripWs(s) IN SubSeq(t, SkipWs(t, 1), Len(t))

\* the scan for bracketed lists left out
Strategy1_skipped(text) == None

Strategy1(text) == FirstBracketList(text, 1)

\* json.loads of group 1 of the FINISH(...) match, if there is a match
DecodedGroup(m) == IF m.some THEN DecodedAsList(json_loads(m.val)) ELSE None

Strategy2(text) == DecodedGroup(FinishSearch(text, 1))

Strategy3(text) == DecodedAsList(json_loads(Strip(text)))

\* [match.group(1).rstrip('.,;:!?')] of the first pattern that matches
PatternAnswer(m) == IF m.some THEN Some(JList(<<JStr(RStripPunct(m.val))>>)) ELSE None

Strategy4(text) ==
    PatternAnswer(FirstSome(LabelSearch(text, 1),
                            FirstSome(MrnSearch(text, 1), NumberSearch(text, 1))))

\* an extractor that looks for the FINISH wrapper before it scans for lists
extract_answer_wrapper_first(text) ==
    IF text = <<>> THEN None
    ELSE FirstSome(Strategy2(text),
                   FirstSome(Strategy1(text),
                             FirstSome(Strategy3(text), Strategy4(text))))

\* The extracted answer, or None when every strategy fails.
extract_answer_from_summary(text) ==
    IF text = <<>> THEN None
    ELSE FirstSome(Strategy1(text),
                   FirstSome(Strategy2(text),
                             FirstSome(Strategy3(text), Strategy4(text))))

\* ---------------------------------------------------------------- tasks
\* green_agent/task_loader.py.  Task fields are never scanned by the code, so
\* they are plain strings.  A raw item of the data file is a record holding
\* the keys the file gives it.

RawItems ==
    << [id |-> "task1_1", instruction |-> "What is the MRN?", eval_MRN |-> "S1111111",
        context |-> "It is 2023-11-13.", sol |-> <<"S1111111">>],
       [id |-> "task2_1", instruction |-> "Record the blood pressure."] >>

ItemGet(item, key, default) == IF key \in DOMAIN item THEN item[key] ELSE default

\* MedAgentTaskLoader._load_tasks: one MedAgentTask per raw item.
MedAgentTask(item) ==
    [ task_id |-> item.id,
      patient_id |-> ItemGet(item, "eval_MRN", "UNKNOWN"),
      instruction |-> item.instruction,
      context |-> ItemGet(item, "context", ""),
      gold_answer |-> ItemGet(item, "sol", <<>>),
      raw_data |-> item ]

load_tasks(items) == [i \in 1..Len(items) |-> MedAgentTask(items[i])]

\* MedAgentTaskLoader.get_task_by_id: the first task with that id, or None.
get_task_by_id(pool, task_id) ==
    IF \E i \in 1..Len(pool) : pool[i].task_id = task_id
    THEN Some(pool[CHOOSE i \in 1..Len(pool) :
                     /\ pool[i].task_id = task_id
                     /\ \A j \in 1..(i - 1) : pool[j].task_id # task_id])
    ELSE None

RECURSIVE JoinLines(_)
\* "\n".join(parts) of plain strings
JoinLines(parts) ==
    IF Len(parts) = 1 THEN parts[1] ELSE parts[1] \o "\n" \o JoinLines(Tail(parts))

\* The description EpisodeManager.reset builds when none is handed in.
build_description(task) ==
    JoinLines(<<"Patient MRN: " \o task.patient_id>>
              \o (IF task.context # "" THEN <<"Context: " \o task.context>> ELSE <<>>)
              \o <<"Task: " \o task.instruction>>)

\* ---------------------------------------------------------------- grading
\* src/server/tasks/medagentbench/eval.py.  The per-task grader of refsol is
\* outside the repository; g says what it does on this submission:
\*   "no_grader"      refsol has no function named after the task id
\*   "returns_true"   the grader returns True
\*   "returns_false"  the grader returns False (or None, 0, an empty value)
\*   "returns_truthy" the grader returns a value other than True that bool()
\*                    makes True (1, a non-empty text)
\*   "raises"         the grader raises
GraderOutcomes == {"no_grader", "returns_true", "returns_false", "returns_truthy", "raises"}

\* eval(case_data, results, fhir_api_base): True, False, None, or the
\* AttributeError of the getattr escapes.
refsol_eval(g) ==
    CASE g = "no_grader" -> [raised |-> TRUE, msg |-> "module has no attribute"]
      [] g = "returns_true" -> [raised |-> FALSE, value |-> "True"]
      [] g = "raises" -> [raised |-> FALSE, value |-> "False"]
      [] g \in {"returns_false", "returns_truthy"} -> [raised |-> FALSE, value |-> "None"]

\* bool(is_correct)
PyBool(value) == value = "True"

Evaluation(correct, extracted_answer, error) ==
    [correct |-> correct, extracted_answer |-> extracted_answer, error |-> error]

\* The grader eval() called, if it called one: None, or what that grader did
grader_called(g) == IF g = "no_grader" THEN None ELSE Some(g)

\* the grader asked although no answer was extracted
grade_extracted_unchecked(extracted_answer, g) ==
    LET is_correct == refsol_eval(g)
    IN  IF is_correct.raised THEN
            [reward |-> 0,
             evaluation |-> Evaluation(FALSE, extracted_answer,
                              Some("evaluation_exception: " \o is_correct.msg)),
             graded |-> grader_called(g)]
        ELSE
            [reward |-> IF PyBool(is_correct.value) THEN 1 ELSE 0,
             evaluation |-> Evaluation(PyBool(is_correct.value), extracted_answer, None),
             graded |-> grader_called(g)]

\* EpisodeManager._evaluate_answer from the extraction on: (reward,
\* evaluation), and beside them the grader that was called on the way.
grade_extracted(extracted_answer, g) ==
    IF ~extracted_answer.some THEN
        [reward |-> 0,
         evaluation |-> Evaluation(FALSE, None, Some("failed_to_extract_answer")),
         graded |-> None]
    ELSE
        LET is_correct == refsol_eval(g)
        IN  IF is_correct.raised THEN
                [reward |-> 0,
                 evaluation |-> Evaluation(FALSE, extracted_answer,
                                  Some("evaluation_exception: " \o is_correct.msg)),
                 graded |-> grader_called(g)]
            ELSE
                [reward |-> IF PyBool(is_correct.value) THEN 1 ELSE 0,
                 evaluation |-> Evaluation(PyBool(is_correct.value), extracted_answer, None),
                 graded |-> grader_called(g)]

\* EpisodeManager._evaluate_answer: (reward, evaluation)
evaluate_answer(final_summary, available, raw_data, g) ==
    IF ~available THEN
        [reward |-> 0, evaluation |-> Evaluation(FALSE, None, Some("refsol_not_available")),
         graded |-> None]
    ELSE IF ~raw_data.some THEN
        [reward |-> 0, evaluation |-> Evaluation(FALSE, None, Some("no_task_data")),
         graded |-> None]
    ELSE grade_extracted(extract_answer_from_summary(final_summary), g)

\* ---------------------------------------------------------------- inputs

ToolCallAction(tool_name, arguments) ==
    [action |-> "call_tool", tool_name |-> tool_name, arguments |-> arguments]

FinishAction(final_summary) == [action |-> "finish", final_summary |-> final_summary]

\* A text of n characters whose i-th character depends on i.
TextOfLen(n) == [i \in 1..n |-> DigitChars[(i % 10) + 1]]

\* Lengths of the summaries a read returns: at the limit, just past it, long.
ResultLens == {TruncLimit, TruncLimit + 1, LongLen}

\* What the FHIR server may make of the request of a tool: the summary of a
\* read has any length, a write succeeds or fails, and either may raise.
ServerOutcomes(tool_name) ==
    {ServerRaises} \cup
    (IF tool_name = post_fhir_resource
     THEN { ServerReturns(<<"S","u","c","c","e","s","s",":"," ","C","r","e","a","t","e","d"," ","O","b","s","e","r","v","a","t","i","o","n"," ","w","i","t","h"," ","I","D"," ","7","."," ","S","t","a","t","u","s"," ","c","o","d","e",":"," ","2","0","1">>),
            ServerReturns(<<"E","r","r","o","r",":"," ","F","a","i","l","e","d"," ","t","o"," ","c","r","e","a","t","e"," ","O","b","s","e","r","v","a","t","i","o","n","."," ","S","t","a","t","u","s","=","4","0","0",","," ","R","e","s","p","o","n","s","e","=","b","a","d">>) }
     ELSE { ServerReturns(TextOfLen(n)) : n \in ResultLens })

\* The tool calls an agent submits: a read, a read without its argument, a
\* write, and a tool that does not exist.
ToolCalls ==
    { ToolCallAction(get_patient_basic, <<KV(<<"p","a","t","i","e","n","t","_","i","d">>, JStr(<<"S","1","1","1","1","1","1","1">>))>>),
      ToolCallAction(get_patient_basic, <<>>),
      ToolCallAction(post_fhir_resource,
                     <<KV(<<"r","e","s","o","u","r","c","e","_","t","y","p","e">>, JStr(<<"O","b","s","e","r","v","a","t","i","o","n">>)),
                       KV(<<"p","a","y","l","o","a","d">>, JObj(<<KV(<<"a">>, JNum(1))>>))>>),
      ToolCallAction(<<"g","e","t","_","w","e","a","t","h","e","r">>, <<>>) }

\* The summaries an agent finishes with.
Summaries == { <<"F","I","N","I","S","H","(","[","\"","4","2","\"","]",")">>, <<"I"," ","d","o"," ","n","o","t"," ","k","n","o","w">>, <<>> }

\* task_id and task_description arguments of reset
ResetTaskIds == {None, Some("task1_1"), Some("task2_1"), Some("task9_9")}
ResetDescriptions == {None, Some("Find the patient.")}

\* ---------------------------------------------------------------- EpisodeManager

VARIABLES
    tasks,                  \* _task_loader.tasks, loaded once per process
    refsol_available,       \* REFSOL_AVAILABLE, set at import
    task_id, task_description, patient_id, gold_answer, task_raw_data,
    current_step, done, last_tool_call, last_tool_result_brief,
    history,
    ret,                    \* the last call of reset / step and what it returned
    server,                 \* green_agent_server: the request being served, its callers
    executor                \* GreenExecutor.run_assessment: where it stands, what it yielded

vars == << fhir_base_url, tasks, refsol_available, task_id, task_description, patient_id, gold_answer,
           task_raw_data, current_step, done, last_tool_call, last_tool_result_brief,
           history, ret, server, executor >>

process == << fhir_base_url, tasks, refsol_available, server, executor >>
task_fields == << task_id, task_description, patient_id, gold_answer, task_raw_data >>
episode_state == << current_step, done, last_tool_call, last_tool_result_brief, history >>

Observation(tid, description, step, tool_call, brief, d) ==
    [ task_id |-> tid,
      task_description |-> description,
      step |-> step,
      max_steps |-> MaxSteps,
      available_tools |-> list_available_tools,
      last_tool_call |-> tool_call,
      last_tool_result_brief |-> brief,
      done |-> d ]

\* EpisodeManager._build_observation on the given episode state
build_observation(step, tool_call, brief, d) ==
    Observation(task_id, task_description, step, tool_call, brief, d)

\* What a call of step returned: (obs, reward, done, info).  Beside it, the
\* record keeps what the call was about: action is the action a running
\* episode processed (None when the episode was already done), result_text
\* the text handle_tool_call returned to it (None when no tool ran), graded
\* the grader that was called (None when none was).
StepReturn(action, result_text, graded, obs, reward, d, info) ==
    [call |-> "step", action |-> action, result_text |-> result_text, graded |-> graded,
     raised |-> FALSE, obs |-> obs, reward |-> reward, done |-> d, info |-> info]

\* A call of step that an exception left.
StepRaise(action) == [call |-> "step", action |-> Some(action), raised |-> TRUE]

\* EpisodeManager.__init__, in a process whose task file holds RawItems or
\* nothing, and where refsol could or could not be imported.
Init ==
    /\ fhir_base_url \in BaseUrls
    /\ tasks \in {load_tasks(RawItems), <<>>}
    /\ refsol_available \in BOOLEAN
    /\ task_id = ""
    /\ task_description = ""
    /\ patient_id = ""
    /\ gold_answer = <<>>
    /\ task_raw_data = None
    /\ current_step = 0
    /\ done = FALSE
    /\ last_tool_call = None
    /\ last_tool_result_brief = None
    /\ history = <<>>
    /\ ret = [call |-> "init"]
    /\ server = [caller |-> "none", agent |-> FALSE, running |-> {}]
    /\ executor = [pc |-> "idle", step |-> 0, done |-> FALSE, out |-> <<>>, ending |-> "none",
                   completed |-> 0]

\* What a call of reset returned: the Observation.  Beside it, the record
\* keeps the arguments of the call and the step count and done flag the call
\* found.
ResetReturn(args, obs) ==
    [call |-> "reset", args |-> args, raised |-> FALSE, obs |-> obs,
     before |-> [step |-> current_step, done |-> done]]

\* a reset that leaves the history of the episode before in place
ResetTo_KeepsHistory(task, description, args) ==
    /\ task_id' = task.task_id
    /\ patient_id' = task.patient_id
    /\ gold_answer' = task.gold_answer
    /\ task_raw_data' = Some(task.raw_data)
    /\ task_description' = IF description.some THEN description.val
                           ELSE build_description(task)
    /\ current_step' = 0
    /\ done' = FALSE
    /\ last_tool_call' = None
    /\ last_tool_result_brief' = None
    /\ ret' = ResetReturn(args, Observation(task_id', task_description', 0, None, None, FALSE))
    /\ UNCHANGED << process, history >>

\* reset() with a task that was found or sampled
ResetTo(task, description, args) ==
    /\ task_id' = task.task_id
    /\ patient_id' = task.patient_id
    /\ gold_answer' = task.gold_answer
    /\ task_raw_data' = Some(task.raw_data)
    /\ task_description' = IF description.some THEN description.val
                           ELSE build_description(task)
    /\ current_step' = 0
    /\ done' = FALSE
    /\ last_tool_call' = None
    /\ last_tool_result_brief' = None
    /\ history' = <<>>
    /\ ret' = ResetReturn(args, Observation(task_id', task_description', 0, None, None, FALSE))
    /\ UNCHANGED process

\* a reset that raises after the episode state was cleared
ResetFails_Clears(args, error) ==
    /\ current_step' = 0
    /\ done' = FALSE
    /\ last_tool_call' = None
    /\ last_tool_result_brief' = None
    /\ history' = <<>>
    /\ ret' = [call |-> "reset", raised |-> TRUE, error |-> error]
    /\ UNCHANGED << process, task_fields >>

\* reset() that raises before anything is assigned
ResetFails(args, error) ==
    /\ ret' = [call |-> "reset", raised |-> TRUE, error |-> error]
    /\ UNCHANGED << process, task_fields, episode_state >>

\* EpisodeManager.reset(task_id, task_description)
Reset ==
    \E tid \in ResetTaskIds, description \in ResetDescriptions :
        LET args == [task_id |-> tid, task_description |-> description]
        IN  IF tid.some THEN
                LET sampled_task == get_task_by_id(tasks, tid.val)
                IN  IF ~sampled_task.some
                    THEN ResetFails(args, "ValueError")
                    ELSE ResetTo(sampled_task.val, description, args)
            ELSE IF tasks = <<>>
                 THEN ResetFails(args, "RuntimeError")
                 ELSE \E i \in 1..Len(tasks) : ResetTo(tasks[i], description, args)

\* The text step stores in self.last_tool_result_brief
stored_result_brief(result_text) == result_text

\* every tool treated alike: the result of a write recorded as it came
tool_result_item_no_ack(action, result_text) ==
    HistoryItem("user", result_brief(result_text))

\* The environment entry of a tool call in the history
tool_result_item(action, result_text) ==
    IF action.tool_name = post_fhir_resource
    THEN HistoryItem("user", POST_ACK)
    ELSE HistoryItem("user", result_brief(result_text))

\* the history assigned anew instead of appended to
record_tool_call_overwrites(h, action, result_text) ==
    << HistoryItem("agent", format_tool_call_for_history(action)),
       tool_result_item(action, result_text) >>

\* The two history entries step appends for a tool call
record_tool_call(h, action, result_text) ==
    h \o << HistoryItem("agent", format_tool_call_for_history(action)),
            tool_result_item(action, result_text) >>

\* the finish message left out of the history
record_finish_forgets(h, action) == h

\* the summary cut like a tool result
record_finish_truncates(h, action) ==
    Append(h, HistoryItem("agent", <<"F","I","N","I","S","H",":"," ">> \o result_brief(action.final_summary)))

\* The history entry step appends for a finish
record_finish(h, action) ==
    Append(h, HistoryItem("agent", <<"F","I","N","I","S","H",":"," ">> \o action.final_summary))

\* the limit tested with > instead of >=
limit_reached_late(step) == step > MaxSteps

\* self.current_step >= self.max_steps
limit_reached(step) == step >= MaxSteps

\* a step after done that is counted like any other
StepAfterDone_Counts(action) ==
    /\ done
    /\ current_step' = current_step + 1
    /\ ret' = StepReturn(None, None, None,
                         build_observation(current_step', last_tool_call,
                                           last_tool_result_brief, done),
                         0, TRUE, [reason |-> "episode_already_done"])
    /\ UNCHANGED << process, task_fields, done, last_tool_call, last_tool_result_brief,
                    history >>

\* a step after done that works out done from the step count again
StepAfterDone_Reopens(action) ==
    /\ done
    /\ done' = limit_reached(current_step)
    /\ ret' = StepReturn(None, None, None,
                         build_observation(current_step, last_tool_call,
                                           last_tool_result_brief, done'),
                         0, done', [reason |-> "episode_already_done"])
    /\ UNCHANGED << process, task_fields, current_step, last_tool_call,
                    last_tool_result_brief, history >>

\* a step after done that still runs the tool of a ToolCall and has a Finish
\* graded
StepAfterDone_Processes(action) ==
    /\ done
    /\ ret' = StepReturn(Some(action),
                         IF action.action = "call_tool" THEN Some(<<>>) ELSE None,
                         IF action.action = "finish" THEN Some("returns_true") ELSE None,
                         build_observation(current_step, last_tool_call,
                                           last_tool_result_brief, done),
                         0, TRUE, [reason |-> "episode_already_done"])
    /\ UNCHANGED << process, task_fields, episode_state >>

\* EpisodeManager.step when the episode is already done
StepAfterDone(action) ==
    /\ done
    /\ ret' = StepReturn(None, None, None,
                         build_observation(current_step, last_tool_call,
                                           last_tool_result_brief, done),
                         0, TRUE, [reason |-> "episode_already_done"])
    /\ UNCHANGED << process, task_fields, episode_state >>

\* EpisodeManager.step with a ToolCallAction; srv is what the FHIR server
\* makes of the request
StepToolCall(action, srv) ==
    /\ ~done
    /\ current_step' = current_step + 1
    /\ LET result == handle_tool_call(action, srv)
       IN  IF result.raised THEN
               \* the exception leaves step after the increment
               /\ current_step < MaxCount
               /\ ret' = StepRaise(action)
               /\ UNCHANGED << done, last_tool_call, last_tool_result_brief, history >>
           ELSE
               /\ last_tool_call' = Some(action)
               /\ last_tool_result_brief' = Some(stored_result_brief(result.text))
               /\ history' = record_tool_call(history, action, result.text)
               /\ done' = limit_reached(current_step')
               /\ ret' = StepReturn(Some(action), Some(result.text), None,
                            build_observation(current_step', last_tool_call',
                                              last_tool_result_brief', done'),
                            0, done',
                            IF done' THEN [reason |-> "max_steps_reached"] ELSE <<>>)
    /\ UNCHANGED << process, task_fields >>

\* a Finish that the step limit overrides: at the limit the step returns the
\* reason of the limit and no evaluation
FinishReturn_LimitFirst(action, step, e) ==
    IF limit_reached(step)
    THEN StepReturn(Some(action), None, None,
                    build_observation(step, last_tool_call, last_tool_result_brief, TRUE),
                    0, TRUE, [reason |-> "max_steps_reached"])
    ELSE StepReturn(Some(action), None, e.graded,
                    build_observation(step, last_tool_call, last_tool_result_brief, TRUE),
                    e.reward, TRUE,
                    [final_summary |-> action.final_summary,
                     evaluation |-> e.evaluation,
                     task_id |-> task_id,
                     patient_id |-> patient_id])

\* What step returns for a FinishAction evaluated to e = (reward, evaluation)
FinishReturn(action, step, e) ==
    StepReturn(Some(action), None, e.graded,
               build_observation(step, last_tool_call, last_tool_result_brief, TRUE),
               e.reward, TRUE,
               [final_summary |-> action.final_summary,
                evaluation |-> e.evaluation,
                task_id |-> task_id,
                patient_id |-> patient_id])

\* a grader that is handed the history as it was before the Finish
results_history_before(before, after) == before

\* MockResults(result_json, self.history): the history the grader is handed,
\* of the history before the Finish and the history after its entry was
\* appended
results_history(before, after) == after

\* EpisodeManager.step with a FinishAction; g is what the grader does.  Beside
\* what step returns, ret keeps the history the grader was handed (None when
\* no grader was called).
StepFinish(action, g) ==
    /\ ~done
    /\ current_step' = current_step + 1
    /\ done' = TRUE
    /\ history' = record_finish(history, action)
    /\ LET e == evaluate_answer(action.final_summary, refsol_available, task_raw_data, g)
       IN  ret' = FinishReturn(action, current_step', e)
                    @@ [handed |-> IF e.graded.some
                                   THEN Some(results_history(history, history'))
                                   ELSE None]
    /\ UNCHANGED << process, task_fields, last_tool_call, last_tool_result_brief >>

Actions == ToolCalls \cup {FinishAction(s) : s \in Summaries}

Next ==
    \/ Reset
    \/ \E action \in Actions : StepAfterDone(action)
    \/ \E action \in ToolCalls :
          \E srv \in ServerOutcomes(action.tool_name) : StepToolCall(action, srv)
    \/ \E s \in Summaries, g \in GraderOutcomes : StepFinish(FinishAction(s), g)

Spec == Init /\ [][Next]_vars

\* ---------------------------------------------------------------- properties

\* r records a call of step that processed a tool call / a finish
IsToolStep(r) == r.call = "step" /\ r.action.some /\ r.action.val.action = "call_tool"
IsFinishStep(r) == r.call = "step" /\ r.action.some /\ r.action.val.action = "finish"
\* r records a call of step made when the episode was already done
IsAfterDoneStep(r) == r.call = "step" /\ ~r.action.some
\* r records a tool call that returned, to a tool other than / that is the write tool
ReadReturned(r) == IsToolStep(r) /\ ~r.raised /\ r.action.val.tool_name # post_fhir_resource
WriteReturned(r) == IsToolStep(r) /\ ~r.raised /\ r.action.val.tool_name = post_fhir_resource

IsPrefix(a, b) == Len(a) <= Len(b) /\ SubSeq(b, 1, Len(a)) = a

LastItem(h) == h[Len(h)]

\* C1: a step with a ToolCall on an episode that is not done increments the
\* step count by exactly 1 and appends exactly two history entries, an
\* agent-role entry and then an environment-role ("user") entry.
C1_ToolCallCountsAndRecords ==
    [][ (~done /\ IsToolStep(ret')) =>
            /\ current_step' = current_step + 1
            /\ Len(history') = Len(history) + 2
            /\ IsPrefix(history, history')
            /\ history'[Len(history) + 1].role = "agent"
            /\ history'[Len(history) + 2].role = "user" ]_vars

\* C2: a step with a Finish on an episode that is not done sets done, appends
\* exactly one history entry (agent-role) and returns done = true, whatever
\* the step count is.
C2_FinishEndsEpisode ==
    [][ (~done /\ IsFinishStep(ret')) =>
            /\ done'
            /\ ~ret'.raised
            /\ ret'.done
            /\ ret'.obs.done
            /\ Len(history') = Len(history) + 1
            /\ IsPrefix(history, history')
            /\ LastItem(history').role = "agent" ]_vars

\* C2 witness: a Finish was processed as the step that reaches the limit.
C2_Witness ==
    /\ IsFinishStep(ret)
    /\ done
    /\ current_step = MaxSteps
    /\ Len(history) = 2 * (MaxSteps - 1) + 1

\* C3: once done, every step call is a no-op: reward 0, done = true, the
\* reason "episode_already_done", the same Observation as the call before, and
\* step count, history, last tool call and last result brief unchanged.
C3_StepAfterDoneIsNoOp ==
    [][ (done /\ ret'.call = "step") =>
            /\ ~ret'.raised
            /\ ret'.reward = 0
            /\ ret'.done
            /\ ret'.info = [reason |-> "episode_already_done"]
            /\ ret'.obs.step = current_step
            /\ ret'.obs.done
            /\ (ret.call = "step" => ret'.obs = ret.obs)
            /\ UNCHANGED << current_step, done, history, last_tool_call,
                            last_tool_result_brief >> ]_vars

\* C3 witness: a step was called on an episode that a Finish had ended.
C3_Witness ==
    /\ IsAfterDoneStep(ret)
    /\ done
    /\ history # <<>>
    /\ SubSeq(LastItem(history).content, 1, 7) = <<"F","I","N","I","S","H",":">>

\* C4, the part about done and the reason: after a reset and k accepted
\* ToolCall actions and nothing else, done is false while k < N, and on the
\* N-th it is true and info carries the reason.
StepLimitReason(reason) ==
    (IsToolStep(ret) /\ ~ret.raised /\ Len(history) = 2 * current_step) =>
        IF current_step < MaxSteps
        THEN ~done /\ ~ret.done /\ ret.info = <<>>
        ELSE /\ current_step = MaxSteps
             /\ done
             /\ ret.done
             /\ ret.info = [reason |-> reason]

\* C4, the part about the call after the N-th: it changes nothing.
StepAfterLimit ==
    (done /\ ret'.call = "step") =>
        /\ IsAfterDoneStep(ret')
        /\ UNCHANGED << current_step, done, history >>

\* C4 as claimed: the N-th accepted ToolCall of an episode ends it with the
\* reason `step_limit_reached`, and the call after it is a no-op.
C4_Original == []StepLimitReason("step_limit_reached") /\ [][StepAfterLimit]_vars

\* C4 amended: the N-th accepted ToolCall of an episode ends it with the
\* reason `max_steps_reached`, and the call after it is a no-op.
C4_StepLimit == []StepLimitReason("max_steps_reached") /\ [][StepAfterLimit]_vars

\* C4 witness: the N-th accepted ToolCall has just ended the episode.
C4_Witness ==
    /\ IsToolStep(ret)
    /\ ~ret.raised
    /\ current_step = MaxSteps
    /\ Len(history) = 2 * MaxSteps
    /\ done

\* C5: done is terminal within an episode: no step makes it false again,
\* only a reset that succeeds does.
C5_DoneIsTerminal ==
    [][ done => (done' \/ (ret'.call = "reset" /\ ~ret'.raised)) ]_vars

\* C5 witness: a step was called on an episode the step limit had ended.
C5_Witness ==
    /\ IsAfterDoneStep(ret)
    /\ done
    /\ Len(history) = 2 * MaxSteps

\* C6: the history is append-only: every call leaves the history it found as
\* a prefix of the one it leaves; only a reset that succeeds empties it.
C6_HistoryAppendOnly ==
    [][ \/ IsPrefix(history, history')
        \/ (ret'.call = "reset" /\ ~ret'.raised /\ history' = <<>>) ]_vars

\* C6 witness: a step appended to a history that already held entries.
C6_Witness == ret.call = "step" /\ ~ret.raised /\ ret.action.some /\ Len(history) >= 3

\* C7: for a tool other than the write tool, the environment entry is the
\* result text when it has at most 500 characters, and its first 500
\* characters otherwise.
C7_ResultTruncatedInHistory ==
    ReadReturned(ret) =>
        LET r == ret.result_text.val
            e == LastItem(history)
        IN  /\ e.role = "user"
            /\ IF Len(r) <= 500 THEN e.content = r
               ELSE /\ Len(e.content) = 500
                    /\ \A i \in 1..500 : e.content[i] = r[i]

\* C7 witness: a result of more than 500 characters was recorded.
C7_Witness ==
    /\ ReadReturned(ret)
    /\ Len(ret.result_text.val) > 500
    /\ Len(LastItem(history).content) = 500

\* C8: after a ToolCall step to a tool other than the write tool, the last
\* result brief of the returned Observation is the text stored in the
\* environment entry of that call.
C8_BriefIsHistoryText ==
    ReadReturned(ret) =>
        ret.obs.last_tool_result_brief = Some(LastItem(history).content)

\* C9: for the write tool the environment entry is the fixed acknowledgment,
\* whatever the tool returned.
C9_WriteAcknowledged ==
    WriteReturned(ret) =>
        LastItem(history) =
            [role |-> "user", content |-> <<"P","O","S","T"," ","r","e","q","u","e","s","t"," ","a","c","c","e","p","t","e","d"," ","a","n","d"," ","e","x","e","c","u","t","e","d"," ","s","u","c","c","e","s","s","f","u","l","l","y">>]

\* C9 witness: a write whose result was an error text was recorded.
C9_Witness ==
    /\ WriteReturned(ret)
    /\ SubSeq(ret.result_text.val, 1, 6) = <<"E","r","r","o","r",":">>
    /\ LastItem(history).content = POST_ACK


\* ---------------------------------------------------------------- rendering of writes

\* Values a payload is built from: texts with a line break, a quote and a
\* backslash in them, numbers, booleans, null, and an empty list.
RenderAtoms ==
    { JStr(<<"f","i","n","a","l">>), JStr(<<"l","i","n","e","1","\n","l","i","n","e","2">>), JStr(<<"s","a","y"," ","\"","h","i","\"">>), JStr(<<"a","\\","b">>), JStr(<<>>),
      JNum(0), JNum(-5), JNum(120), JBool(TRUE), JBool(FALSE), JNull, JList(<<>>) }

\* The payload written down in C10_Witness
NotePayload ==
    JObj(<< KV(<<"n","o","t","e">>, JStr(<<"l","i","n","e","1","\n","l","i","n","e","2">>)),
            KV(<<"q">>, JStr(<<"s","a","y"," ","\"","h","i","\"">>)),
            KV(<<"n">>, JList(<< JNum(1), JNum(-5), JBool(TRUE), JNull >>)),
            KV(<<"o">>, JObj(<< KV(<<"p">>, JStr(<<"a","\\","b">>)) >>)) >>)

RenderPayloads ==
    { JObj(<< KV(<<"v","a","l","u","e">>, a) >>) : a \in RenderAtoms }
        \cup { JObj(<<>>), NotePayload, JList(<< JObj(<<>>), JStr(<<"x">>) >>), JStr(<<"t","e","x","t">>) }

RenderResourceTypes == { <<"O","b","s","e","r","v","a","t","i","o","n">>, <<"M","e","d","i","c","a","t","i","o","n","R","e","q","u","e","s","t">>, <<"S","e","r","v","i","c","e","R","e","q","u","e","s","t">> }

\* Calls of the write tool with both of its arguments
RenderCalls ==
    { ToolCallAction(post_fhir_resource,
                     << KV(<<"r","e","s","o","u","r","c","e","_","t","y","p","e">>, JStr(R)), KV(<<"p","a","y","l","o","a","d">>, P) >>) :
        R \in RenderResourceTypes, P \in RenderPayloads }

\* Arguments of a read: none, the ones the tools ask for, and values with a
\* line break and nested values in them.
ReadRenderArgs ==
    { <<>>,
      << KV(<<"p","a","t","i","e","n","t","_","i","d">>, JStr(<<"S","1","1","1","1","1","1","1">>)) >>,
      << KV(<<"p","a","t","i","e","n","t","_","i","d">>, JStr(<<"S","1","1","1","1","1","1","1">>)), KV(<<"l","a","b","_","c","o","d","e">>, JStr(<<"A","1","C">>)) >>,
      << KV(<<"p","a","t","i","e","n","t","_","i","d">>, JStr(<<"S","1","1","1","1","1","1","1">>)), KV(<<"c","a","t","e","g","o","r","y">>, JStr(<<"v","i","t","a","l","-","s","i","g","n","s">>)) >>,
      << KV(<<"n","o","t","e">>, JStr(<<"l","i","n","e","1","\n","l","i","n","e","2">>)) >>,
      << KV(<<"p","a","t","i","e","n","t","_","i","d">>, JNum(42)), KV(<<"o">>, NotePayload) >> }

\* Calls of tools other than the write tool
ReadRenderCalls ==
    { ToolCallAction(name, args) :
        name \in { get_patient_basic, get_recent_labs, <<"s","e","a","r","c","h","_","o","b","s","e","r","v","a","t","i","o","n","s">> },
        args \in ReadRenderArgs }

\* The first step of an episode, a tool call
StepRender(action, srv) ==
    /\ current_step = 0
    /\ StepToolCall(action, srv)

NextRender ==
    \E action \in RenderCalls \cup ReadRenderCalls :
        \E srv \in ServerOutcomes(action.tool_name) : StepRender(action, srv)

SpecRender == Init /\ [][NextRender]_vars

\* C10: for a call of the write tool with resource_type R and payload P under
\* base URL B, the agent entry is exactly two lines: `POST B/R`, then the JSON
\* encoding of P, not pretty-printed; the text after the line break parses
\* back to P.
C10_WriteRendered ==
    (WriteReturned(ret) /\ ret.action.val \in RenderCalls) =>
        LET R == ret.action.val.arguments[1].v.s
            P == ret.action.val.arguments[2].v
            e == history[Len(history) - 1]
            first == <<"P","O","S","T"," ">> \o fhir_base_url \o <<"/">> \o R
            nl == Len(first) + 1
            rest == SubSeq(e.content, nl + 1, Len(e.content))
        IN  /\ e.role = "agent"
            /\ Len(e.content) > nl
            /\ SubSeq(e.content, 1, Len(first)) = first
            /\ \A i \in 1..Len(e.content) : (e.content[i] = "\n") <=> (i = nl)
            /\ rest = json_dumps(P)
            /\ json_loads(rest).ok
            /\ json_loads(rest).val = P

\* C10 witness: a payload with a line break, quotes and a backslash in its
\* texts was rendered under a base URL other than the default one.
C10_Witness ==
    /\ WriteReturned(ret)
    /\ fhir_base_url = <<"h","t","t","p",":","/","/","x","/","f","h","i","r">>
    /\ ret.action.val.arguments[2].v = NotePayload
    /\ history[Len(history) - 1].content =
           <<"P","O","S","T"," ","h","t","t","p",":","/","/","x","/","f","h","i","r","/","M","e","d","i","c","a","t","i","o","n","R","e","q","u","e","s","t","\n","{","\"","n","o","t","e","\"",":"," ","\"","l","i","n","e","1">> \o <<"\\", "n">>
           \o <<"l","i","n","e","2","\"",","," ","\"","q","\"",":"," ","\"","s","a","y"," ","\\","\"","h","i","\\","\"","\"",","," ","\"","n","\"",":"," ","[","1",","," ","-","5",","," ","t","r","u","e",","," ","n","u","l","l","]",","," ","\"","o","\"",":"," ","{","\"","p","\"",":"," ","\"","a","\\","\\","b","\"","}","}">>


\* C11: for a call of a tool other than the write tool, the agent entry is
\* the single line `GET <tool name> with arguments: <JSON-encoded arguments>`,
\* and empty arguments are rendered as `{}`.
C11_ReadRendered ==
    ReadReturned(ret) =>
        LET a == ret.action.val
            e == history[Len(history) - 1]
            head == <<"G","E","T"," ">> \o a.tool_name \o <<" ","w","i","t","h"," ","a","r","g","u","m","e","n","t","s",":"," ">>
            rest == SubSeq(e.content, Len(head) + 1, Len(e.content))
        IN  /\ e.role = "agent"
            /\ SubSeq(e.content, 1, Len(head)) = head
            /\ \A i \in 1..Len(e.content) : e.content[i] # "\n"
            /\ (a.arguments = <<>>) => (rest = <<"{","}">>)
            /\ json_loads(rest).ok
            /\ json_loads(rest).val = JObj(a.arguments)

\* C11 witness: a call without arguments was rendered.
C11_Witness ==
    /\ ReadReturned(ret)
    /\ ret.action.val.arguments = <<>>
    /\ history[Len(history) - 1].content = <<"G","E","T"," ","g","e","t","_","r","e","c","e","n","t","_","l","a","b","s"," ","w","i","t","h"," ","a","r","g","u","m","e","n","t","s",":"," ","{","}">>


\* ---------------------------------------------------------------- finish and grading

\* Lists an agent submits: of texts and numbers, empty, nested one and two
\* levels deep, and with a parenthesis or a bracket inside a text.
FinishLists ==
    { JList(<< JStr(<<"S","1","2","3","4","5","6","7">>) >>),
      JList(<< JStr(<<"4","2">>) >>),
      JList(<<>>),
      JList(<< JNum(42) >>),
      JList(<< JStr(<<"a">>), JStr(<<"b">>) >>),
      JList(<< JNum(1), JList(<< JNum(2), JNum(3) >>) >>),
      JList(<< JStr(<<"a",")","b">>) >>),
      JList(<< JList(<< JList(<< JStr(<<"x">>) >>) >>) >>),
      JList(<< JStr(<<"a","]","b",")","c">>) >>) }

\* The summary FINISH(L)
FinishText(L) == <<"F","I","N","I","S","H","(">> \o json_dumps(L) \o <<")">>

\* Identifiers an agent names in a sentence
AnswerIds == { <<"S","7","6","5","4","3","2","1">>, <<"A","B","-","1","2">>, <<"x","9">>, <<"7">> }

\* The summary 'The answer is ID.'
AnswerText(ID) == <<"T","h","e"," ","a","n","s","w","e","r"," ","i","s"," ">> \o ID \o <<".">>

\* A summary longer than the limit on tool results
LongSummary == [i \in 1..LongLen |-> "x"]

\* Summaries that are free text
FreeTexts == { <<"n","o"," ","s","t","r","u","c","t","u","r","e","d"," ","a","n","s","w","e","r"," ","h","e","r","e">>, <<"I"," ","d","o"," ","n","o","t"," ","k","n","o","w">>, <<>>, LongSummary }

\* Summaries in which more than one strategy of the extractor finds
\* something, each with the answer Python returns for it.
MixedExpected ==
    { << <<"[","\"","a","\"","]"," ","F","I","N","I","S","H","(","\"","b","\"",")"," ","a","n","s","w","e","r",":"," ","X","1","2">>, JList(<< JStr(<<"a">>) >>) >>,
      << <<"F","I","N","I","S","H","(","[","\"","b","\"","]",")"," ","[","\"","a","\"","]">>, JList(<< JStr(<<"b">>) >>) >>,
      << <<"{","\"","a","\"",":"," ","[","\"","x","\"","]","}">>, JList(<< JStr(<<"x">>) >>) >>,
      << <<"F","I","N","I","S","H","(","\"","b","\"",")"," ","a","n","s","w","e","r",":"," ","X","1","2">>, JList(<< JStr(<<"b">>) >>) >>,
      << <<"F","I","N","I","S","H","(","7",")"," ","[","x","]">>, JList(<< JNum(7) >>) >>,
      << <<"[","\"","a","]","b","\"","]"," ","F","I","N","I","S","H","(","7",")">>, JList(<< JNum(7) >>) >>,
      << <<"{","\"","a","n","s","w","e","r","\"",":"," ","\"","X","1","2","\"","}">>, JList(<< JObj(<< KV(<<"a","n","s","w","e","r">>, JStr(<<"X","1","2">>)) >>) >>) >>,
      << <<"\"","a","n","s","w","e","r",":"," ","X","1","2","\"">>, JList(<< JStr(<<"a","n","s","w","e","r",":"," ","X","1","2">>) >>) >>,
      << <<"F","I","N","I","S","H","(","o","o","p","s",")"," ","a","n","s","w","e","r",":"," ","X","1","2">>, JList(<< JStr(<<"X","1","2">>) >>) >> }

MixedSummaries == { p[1] : p \in MixedExpected }

FinishSummaries ==
    { FinishText(L) : L \in FinishLists } \cup { AnswerText(ID) : ID \in AnswerIds }
        \cup FreeTexts \cup MixedSummaries

\* A Finish as the first step of an episode
StepFinishFirst(action, g) ==
    /\ current_step = 0
    /\ StepFinish(action, g)

NextFinish ==
    \/ Reset
    \/ \E s \in FinishSummaries, g \in GraderOutcomes : StepFinishFirst(FinishAction(s), g)

SpecFinish == Init /\ [][NextFinish]_vars

C13_ResetStartsAfresh ==
    (ret.call = "reset" /\ ~ret.raised) =>
        /\ current_step = 0
        /\ ~done
        /\ last_tool_call = None
        /\ last_tool_result_brief = None
        /\ history = <<>>
        /\ ret.obs.step = 0
        /\ ~ret.obs.done
        /\ ret.obs.last_tool_call = None
        /\ ret.obs.last_tool_result_brief = None
        /\ ret.obs.available_tools =
               << <<"g","e","t","_","p","a","t","i","e","n","t","_","b","a","s","i","c">>, <<"g","e","t","_","r","e","c","e","n","t","_","l","a","b","s">>, <<"g","e","t","_","c","o","n","d","i","t","i","o","n","s">>,
                  <<"s","e","a","r","c","h","_","e","n","c","o","u","n","t","e","r","s">>, <<"s","e","a","r","c","h","_","m","e","d","i","c","a","t","i","o","n","s">>, <<"s","e","a","r","c","h","_","p","r","o","c","e","d","u","r","e","s">>,
                  <<"s","e","a","r","c","h","_","o","b","s","e","r","v","a","t","i","o","n","s">>, <<"s","e","a","r","c","h","_","d","i","a","g","n","o","s","t","i","c","_","r","e","p","o","r","t","s">>,
                  <<"p","o","s","t","_","f","h","i","r","_","r","e","s","o","u","r","c","e">> >>

\* C13 witness: a reset succeeded on an episode the step limit had ended.
C13_Witness ==
    /\ ret.call = "reset"
    /\ ~ret.raised
    /\ ret.before.done
    /\ ret.before.step = MaxSteps

\* C14, that such a reset fails: a reset that returned had a pool with
\* tasks in it and, when it named a task, a task of that id in the pool.
ResetReturnedForTaskInPool ==
    (ret.call = "reset" /\ ~ret.raised) =>
        /\ tasks # <<>>
        /\ ret.args.task_id.some =>
               \E i \in 1..Len(tasks) : tasks[i].task_id = ret.args.task_id.val

\* C14, that it creates no episode: a reset that fails leaves all of these
\* as they were.
FailedResetChangesNothing ==
    (ret'.call = "reset" /\ ret'.raised) =>
        UNCHANGED << current_step, done, history, last_tool_call,
                     last_tool_result_brief, task_id, task_description,
                     patient_id, gold_answer, task_raw_data >>

\* C14: a reset with a task_id that is not in the pool, or with no task_id on
\* an empty pool, fails and leaves step count, done flag, history, last tool
\* call and the task fields as they were.
C14_FailedResetCreatesNoEpisode ==
    []ResetReturnedForTaskInPool /\ [][FailedResetChangesNothing]_vars

\* C14 witness: a reset for an unknown task failed on an episode under way.
C14_Witness ==
    /\ ret.call = "reset"
    /\ ret.raised
    /\ ret.error = "ValueError"
    /\ history # <<>>
    /\ ~done


\* Summaries of FinishSummaries from which _extract_answer_from_summary
\* returns None
Unextractable ==
    { <<"I"," ","d","o"," ","n","o","t"," ","k","n","o","w">>, <<>>, LongSummary, FinishText(JList(<< JStr(<<"a","]","b",")","c">>) >>)) }

\* What C15 says of a Finish whose summary yields no answer: the step returns,
\* no grader is called, the reward is 0, the episode is done, and the
\* evaluation carries the reason failed_to_extract_answer.
EndsUngraded(r) ==
    /\ ~r.raised
    /\ r.graded = None
    /\ r.reward = 0
    /\ r.done
    /\ done
    /\ r.info.evaluation.error = Some("failed_to_extract_answer")
    /\ ~r.info.evaluation.correct

\* C15 as claimed: a Finish from whose summary no answer can be extracted ends
\* the episode ungraded with reward 0 and the reason failed_to_extract_answer.
C15_Original ==
    (IsFinishStep(ret) /\ ret.action.val.final_summary \in Unextractable) =>
        EndsUngraded(ret)

\* C15 amended: the same, when the grading module was imported and the
\* manager holds a task.
C15_NoAnswerEndsUngraded ==
    (/\ IsFinishStep(ret)
     /\ ret.action.val.final_summary \in Unextractable
     /\ refsol_available
     /\ task_raw_data.some) =>
        EndsUngraded(ret)

\* C15 witness: a summary without an answer was submitted for a loaded task
\* with the grading module at hand.
C15_Witness ==
    /\ IsFinishStep(ret)
    /\ ret.action.val.final_summary = <<"I"," ","d","o"," ","n","o","t"," ","k","n","o","w">>
    /\ refsol_available
    /\ task_raw_data.some
    /\ ret.info.evaluation.error = Some("failed_to_extract_answer")


\* r records a Finish that _evaluate_answer took as far as the extractor
Extracting(r) == IsFinishStep(r) /\ refsol_available /\ task_raw_data.some

\* C16: if the grader of the task raises while a Finish is evaluated, step
\* does not raise, returns reward 0 and done = true, and the message of the
\* exception is recorded in the error field of the evaluation.
C16_GraderExceptionRecorded ==
    (IsFinishStep(ret) /\ ret.graded = Some("raises")) =>
        /\ ~ret.raised
        /\ ret.reward = 0
        /\ ret.done
        /\ ret.info.evaluation.error.some

\* C17: on a Finish whose answer was extracted and graded, the reward is 1 if
\* the value the grader returned is true under bool() and 0 otherwise, and the
\* correct field of the evaluation is that boolean.
C17_RewardIsGraderVerdict ==
    (IsFinishStep(ret) /\ ret.graded.some /\ ret.graded.val # "raises") =>
        LET verdict == ret.graded.val \in {"returns_true", "returns_truthy"}
        IN  /\ ret.reward = (IF verdict THEN 1 ELSE 0)
            /\ ret.info.evaluation.correct = verdict
            /\ ret.done

\* What C18 says of the lists and identifiers that satisfy OfForm: FINISH(L)
\* yields L, and 'The answer is ID.' yields [ID].
ExtractsWhatWasWritten(OfForm(_)) ==
    Extracting(ret) =>
        /\ \A L \in FinishLists :
              (OfForm(L) /\ ret.action.val.final_summary = FinishText(L)) =>
                  ret.info.evaluation.extracted_answer = Some(L)
        /\ \A ID \in AnswerIds :
              (OfForm(JStr(ID)) /\ ret.action.val.final_summary = AnswerText(ID)) =>
                  ret.info.evaluation.extracted_answer = Some(JList(<< JStr(ID) >>))

AnyForm(v) == TRUE

\* A number, a boolean, null, or a text without a bracket in it
PlainScalar(v) ==
    \/ v.t \in {"num", "bool", "null"}
    \/ v.t = "str" /\ \A i \in 1..Len(v.s) : v.s[i] \notin {"[", "]"}

\* A list of plain scalars and of lists of plain scalars; an identifier of two
\* or more letters, digits and hyphens that starts with a letter or a digit
PlainForm(v) ==
    IF v.t = "list" THEN
        \A i \in 1..Len(v.xs) :
            \/ PlainScalar(v.xs[i])
            \/ v.xs[i].t = "list" /\ \A j \in 1..Len(v.xs[i].xs) : PlainScalar(v.xs[i].xs[j])
    ELSE
        /\ Len(v.s) >= 2
        /\ IsAlnum(v.s[1])
        /\ \A i \in 1..Len(v.s) : IsAlnum(v.s[i]) \/ v.s[i] = "-"

C19_FreeTextYieldsNoAnswer ==
    (Extracting(ret) /\ ret.action.val.final_summary = <<"n","o"," ","s","t","r","u","c","t","u","r","e","d"," ","a","n","s","w","e","r"," ","h","e","r","e">>) =>
        /\ ret.info.evaluation.extracted_answer = None
        /\ ret.info.evaluation.error = Some("failed_to_extract_answer")

\* ---------------------------------------------------------------- GreenHealthcareAgent

\* What parse_action_from_text made of a text: an action, or the exception
\* that left it.
ParseFail(error) == [ok |-> FALSE, error |-> error]
ParseOk(action) == [ok |-> TRUE, action |-> action]

\* The cut of a leading code fence: the line that opens with three backticks
\* goes, and three closing backticks go (only when the text opened with them).
\* A string of this language cannot hold the backtick: the character @, which
\* no text of the model uses otherwise, is written for it.
Backtick == "@"
Fence == <<Backtick, Backtick, Backtick>>

\* a cut that takes the opening line of the fence and leaves the closing one
StripFence_KeepsClosing(text) ==
    LET t == Strip(text)
    IN  IF ~StartsAt(t, 1, Fence) THEN t
        ELSE LET first_newline == First({i \in 1..Len(t) : t[i] = "\n"})
             IN  IF first_newline # 0 THEN SubSeq(t, first_newline + 1, Len(t)) ELSE t

StripFence(text) ==
    LET t == Strip(text)
    IN  IF ~StartsAt(t, 1, Fence) THEN t
        ELSE LET first_newline == First({i \in 1..Len(t) : t[i] = "\n"})
                 u == IF first_newline # 0 THEN SubSeq(t, first_newline + 1, Len(t)) ELSE t
             IN  IF Len(u) >= 3 /\ SubSeq(u, Len(u) - 2, Len(u)) = Fence
                 THEN SubSeq(u, 1, Len(u) - 3) ELSE u

\* a str field that takes whatever the object holds
StrField_lenient(kv, k) == Some(PyStr(DictGet(kv, k, JStr(<<>>))))

\* pydantic's validation of a required str field (the pydantic 1 that
\* parse_obj and .json(indent=...) belong to): a str passes, a number or a
\* bool becomes its str(), anything else and a missing key are refused.
StrField(kv, k) ==
    IF ~HasKey(kv, k) THEN None
    ELSE LET v == DictGet(kv, k, JNull)
         IN  IF v.t \in {"str", "num", "bool"} THEN Some(PyStr(v)) ELSE None

\* One element of an iterable handed to dict(): a pair [k, v], or a str of
\* two characters; the key then has to pass as a str.
PairOf(x) ==
    IF x.t = "list" /\ Len(x.xs) = 2 /\ x.xs[1].t \in {"str", "num", "bool"}
    THEN Some(KV(PyStr(x.xs[1]), x.xs[2]))
    ELSE IF x.t = "str" /\ Len(x.s) = 2
    THEN Some(KV(<<x.s[1]>>, JStr(<<x.s[2]>>)))
    ELSE None

RECURSIVE DictOfPairs(_, _)
DictOfPairs(xs, acc) ==
    IF xs = <<>> THEN acc
    ELSE LET p == PairOf(Head(xs)) IN DictOfPairs(Tail(xs), DictSet(acc, p.val.k, p.val.v))

\* pydantic's validation of arguments: Dict[str, Any] with default_factory
\* dict: a missing key gives {}, an object passes, and what dict() accepts
\* (a list of pairs, an empty str) becomes that dict.
ArgumentsField(kv) ==
    IF ~HasKey(kv, <<"a","r","g","u","m","e","n","t","s">>) THEN Some(<<>>)
    ELSE LET v == DictGet(kv, <<"a","r","g","u","m","e","n","t","s">>, JNull)
         IN  IF v.t = "obj" THEN Some(v.kv)
             ELSE IF v.t = "list" /\ \A i \in 1..Len(v.xs) : PairOf(v.xs[i]).some
             THEN Some(DictOfPairs(v.xs, <<>>))
             ELSE IF v = JStr(<<>>) THEN Some(<<>>)
             ELSE None

\* a parse that hands on whatever object it decoded
parse_action_from_text_unvalidated(text) ==
    LET data == json_loads(StripFence(text))
    IN  IF ~data.ok THEN ParseFail("JSONDecodeError")
        ELSE IF data.val.t # "obj" THEN ParseFail("AttributeError")
        ELSE LET kind == DictGet(data.val.kv, <<"a","c","t","i","o","n">>, JNull)
             IN  IF kind = JStr(<<"c","a","l","l","_","t","o","o","l">>)
                 THEN ParseOk(ToolCallAction(PyStr(DictGet(data.val.kv, <<"t","o","o","l","_","n","a","m","e">>, JNull)), <<>>))
                 ELSE IF kind = JStr(<<"f","i","n","i","s","h">>)
                 THEN ParseOk(FinishAction(PyStr(DictGet(data.val.kv, <<"f","i","n","a","l","_","s","u","m","m","a","r","y">>, JNull))))
                 ELSE ParseOk([action |-> "other"])

\* protocol.parse_action_from_text
parse_action_from_text(text) ==
    LET data == json_loads(StripFence(text))
    IN  IF ~data.ok THEN ParseFail("JSONDecodeError")
        ELSE IF data.val.t # "obj" THEN ParseFail("AttributeError")
        ELSE LET kv == data.val.kv
                 kind == DictGet(kv, <<"a","c","t","i","o","n">>, JNull)
             IN  IF kind = JStr(<<"c","a","l","l","_","t","o","o","l">>) THEN
                     LET tool_name == StrField(kv, <<"t","o","o","l","_","n","a","m","e">>)
                         arguments == ArgumentsField(kv)
                     IN  IF tool_name.some /\ arguments.some
                         THEN ParseOk(ToolCallAction(tool_name.val, arguments.val))
                         ELSE ParseFail("ValidationError")
                 ELSE IF kind = JStr(<<"f","i","n","i","s","h">>) THEN
                     LET final_summary == StrField(kv, <<"f","i","n","a","l","_","s","u","m","m","a","r","y">>)
                     IN  IF final_summary.some
                         THEN ParseOk(FinishAction(final_summary.val))
                         ELSE ParseFail("ValidationError")
                 ELSE ParseFail("ValueError")

\* The texts a purple agent answers with: actions as the protocol asks for
\* them (a read, a read without its argument, a finish inside a code fence,
\* a finish whose summary is a number), and texts that are no action.
ActionTexts ==
    { <<"{","\"","a","c","t","i","o","n","\"",":"," ","\"","c","a","l","l","_","t","o","o","l","\"",","," ","\"","t","o","o","l","_","n","a","m","e","\"",":"," ","\"","g","e","t","_","p","a","t","i","e","n","t","_","b","a","s","i","c","\"",","," ","\"","a","r","g","u","m","e","n","t","s","\"",":"," ","{","\"","p","a","t","i","e","n","t","_","i","d","\"",":"," ","\"","S","1","1","1","1","1","1","1","\"","}","}">>,
      <<"{","\"","a","c","t","i","o","n","\"",":"," ","\"","c","a","l","l","_","t","o","o","l","\"",","," ","\"","t","o","o","l","_","n","a","m","e","\"",":"," ","\"","g","e","t","_","p","a","t","i","e","n","t","_","b","a","s","i","c","\"","}">>,
      Fence \o <<"j","s","o","n","\n","{","\"","a","c","t","i","o","n","\"",":"," ","\"","f","i","n","i","s","h","\"",","," ","\"","f","i","n","a","l","_","s","u","m","m","a","r","y","\"",":"," ","\"","F","I","N","I","S","H","(","[","4","2","]",")","\"","}","\n">> \o Fence,
      <<" ","{","\"","a","c","t","i","o","n","\"",":"," ","\"","f","i","n","i","s","h","\"",","," ","\"","f","i","n","a","l","_","s","u","m","m","a","r","y","\"",":"," ","4","2","}"," ">> }

MalformedTexts ==
    { <<"I"," ","w","i","l","l"," ","l","o","o","k"," ","t","h","e"," ","p","a","t","i","e","n","t"," ","u","p",".">>,
      <<>>,
      Fence \o <<"j","s","o","n">>,
      <<"[","1","]">>,
      <<"{","\"","a","c","t","i","o","n","\"",":"," ","\"","d","a","n","c","e","\"","}">>,
      <<"{","\"","t","o","o","l","_","n","a","m","e","\"",":"," ","\"","g","e","t","_","w","e","a","t","h","e","r","\"","}">>,
      <<"{","\"","a","c","t","i","o","n","\"",":"," ","\"","c","a","l","l","_","t","o","o","l","\"",","," ","\"","a","r","g","u","m","e","n","t","s","\"",":"," ","{","}","}">>,
      <<"{","\"","a","c","t","i","o","n","\"",":"," ","\"","c","a","l","l","_","t","o","o","l","\"",","," ","\"","t","o","o","l","_","n","a","m","e","\"",":"," ","\"","g","e","t","_","w","e","a","t","h","e","r","\"",","," ","\"","a","r","g","u","m","e","n","t","s","\"",":"," ","n","u","l","l","}">>,
      <<"{","\"","a","c","t","i","o","n","\"",":"," ","\"","f","i","n","i","s","h","\"","}">> }

AgentTexts == ActionTexts \cup MalformedTexts

\* What GreenHealthcareAgent.step returned for a text that is no action:
\* (prompt, 0.0, False, {"error": str(e)}); of the prompt the record keeps the
\* Observation it shows and the note added to it (the exception stands for its
\* message).  Beside it, the record keeps the episode state the call found.
ParseErrorReturn(text, error, obs) ==
    [call |-> "agent_step", text |-> text, raised |-> FALSE, parse_error |-> TRUE,
     obs |-> obs, note |-> Some(error), reward |-> 0, done |-> FALSE,
     info |-> [error |-> error],
     before |-> episode_state]

\* a malformed turn that is counted as a step
StepParseError_Counts(text, error) ==
    /\ current_step' = current_step + 1
    /\ current_step < MaxCount
    /\ ret' = ParseErrorReturn(text, error,
                  build_observation(current_step', last_tool_call,
                                    last_tool_result_brief, done))
    /\ UNCHANGED << process, task_fields, done, last_tool_call,
                    last_tool_result_brief, history >>

\* a malformed turn that costs the agent a point
StepParseError_Penalty(text, error) ==
    /\ ret' = [ParseErrorReturn(text, error,
                   build_observation(current_step, last_tool_call,
                                     last_tool_result_brief, done))
               EXCEPT !.reward = -1]
    /\ UNCHANGED << process, task_fields, episode_state >>

\* GreenHealthcareAgent.step, the except branch: the episode is not stepped
StepParseError(text, error) ==
    /\ ret' = ParseErrorReturn(text, error,
                  build_observation(current_step, last_tool_call,
                                    last_tool_result_brief, done))
    /\ UNCHANGED << process, task_fields, episode_state >>

\* EpisodeManager.step with an action that is neither a ToolCallAction nor a
\* FinishAction: the step is counted, nothing is recorded, the limit is not
\* looked at.
StepUnknown(action) ==
    /\ ~done
    /\ action.action \notin {"call_tool", "finish"}
    /\ current_step < MaxCount
    /\ current_step' = current_step + 1
    /\ ret' = StepReturn(Some(action), None, None,
                         build_observation(current_step', last_tool_call,
                                           last_tool_result_brief, done),
                         0, FALSE, [warning |-> "unknown action type"])
    /\ UNCHANGED << process, task_fields, done, last_tool_call,
                    last_tool_result_brief, history >>

\* GreenHealthcareAgent.step, the else branch: self.episode.step(action); the
\* prompt shows the Observation the episode returned, and reward, done and
\* info are the episode's.
StepAction(action) ==
    \/ StepAfterDone(action)
    \/ /\ action.action = "call_tool"
       /\ \E srv \in ServerOutcomes(action.tool_name) : StepToolCall(action, srv)
    \/ /\ action.action = "finish"
       /\ \E g \in GraderOutcomes : StepFinish(action, g)
    \/ StepUnknown(action)

\* GreenHealthcareAgent.step(text_from_purple)
AgentStep(text) ==
    LET parsed == parse_action_from_text(text)
    IN  IF parsed.ok THEN StepAction(parsed.action) ELSE StepParseError(text, parsed.error)

\* GreenHealthcareAgent.reset(): self.episode.reset() without arguments
AgentReset ==
    LET args == [task_id |-> None, task_description |-> None]
    IN  IF tasks = <<>>
        THEN ResetFails(args, "RuntimeError")
        ELSE \E i \in 1..Len(tasks) : ResetTo(tasks[i], None, args)

NextAgent ==
    \/ AgentReset
    \/ \E text \in AgentTexts : AgentStep(text)

SpecAgent == Init /\ [][NextAgent]_vars

\* r records a turn whose text could not be parsed into an action
IsParseError(r) == r.call = "agent_step" /\ r.parse_error

\* What a malformed turn returns and leaves: reward 0, not done, an error in
\* info, a note, the Observation of the episode as it stands, and the episode
\* state as the call found it.
MalformedTurnReturnsCurrent ==
    IsParseError(ret) =>
        /\ ret.reward = 0
        /\ ~ret.done
        /\ ret.note.some
        /\ "error" \in DOMAIN ret.info
        /\ ret.before = episode_state
        /\ ret.obs = Observation(task_id, task_description, current_step,
                                 last_tool_call, last_tool_result_brief, done)

\* The step after a malformed turn goes on from the step count and the history
\* the malformed turn found.
StepAfterMalformedTurn ==
    (IsParseError(ret) /\ ret'.call = "step" /\ ~ret'.raised) =>
        LET before_step == ret.before[1]
            before_done == ret.before[2]
            before_history == ret.before[5]
        IN  IF before_done
            THEN ret'.obs.step = before_step /\ history' = before_history
            ELSE ret'.obs.step = before_step + 1 /\ Len(history') > Len(before_history)
                 /\ IsPrefix(before_history, history')

\* C20: when the agent's text cannot be parsed into an action,
\* GreenHealthcareAgent.step neither ends the episode nor changes its state
\* (step count, history, done flag, last tool call); it returns the current
\* Observation with a note, reward 0 and an error in info, and a later valid
\* action is processed as if the malformed turn had not happened.
C20_MalformedTurnLeavesEpisode ==
    []MalformedTurnReturnsCurrent /\ [][StepAfterMalformedTurn]_vars

\* a malformed turn in an episode under way: a tool call is on record, the
\* episode is not done
C20_Witness ==
    /\ IsParseError(ret)
    /\ current_step = 1
    /\ ~done
    /\ last_tool_call.some
    /\ history # <<>>

\* ---------------------------------------------------------------- parse_action_from_text alone

\* The values a field of the agent's JSON object may hold; None is a field
\* that is absent.
DiscriminatorValues == {None, Some(JStr(<<"c","a","l","l","_","t","o","o","l">>)), Some(JStr(<<"f","i","n","i","s","h">>)), Some(JStr(<<"d","a","n","c","e">>)), Some(JNull)}
ToolNameValues == {None, Some(JStr(get_patient_basic)), Some(JNull), Some(JNum(42)), Some(JList(<<>>))}
ArgumentsValues ==
    {None, Some(JObj(<<>>)), Some(JObj(<<KV(<<"p","a","t","i","e","n","t","_","i","d">>, JStr(<<"S","1">>))>>)),
     Some(JNull), Some(JList(<<>>)), Some(JNum(5))}
SummaryValues == {None, Some(JStr(<<"d","o","n","e">>)), Some(JNull), Some(JObj(<<>>))}

\* The JSON object with the fields that are present, in this order.
FieldsObject(action, tool_name, arguments, final_summary) ==
    JObj( (IF action.some THEN <<KV(<<"a","c","t","i","o","n">>, action.val)>> ELSE <<>>)
          \o (IF tool_name.some THEN <<KV(<<"t","o","o","l","_","n","a","m","e">>, tool_name.val)>> ELSE <<>>)
          \o (IF arguments.some THEN <<KV(<<"a","r","g","u","m","e","n","t","s">>, arguments.val)>> ELSE <<>>)
          \o (IF final_summary.some THEN <<KV(<<"f","i","n","a","l","_","s","u","m","m","a","r","y">>, final_summary.val)>> ELSE <<>>) )

\* JSON values that are no object, and texts that are no JSON.
OtherValues == {JList(<<JNum(1)>>), JStr(<<"f","i","n","i","s","h">>), JNum(7), JNull}
BrokenTexts == {<<>>, <<"I"," ","w","i","l","l"," ","l","o","o","k"," ","t","h","e"," ","p","a","t","i","e","n","t"," ","u","p",".">>, <<"{","\"","a","c","t","i","o","n","\"",":"," ","\"","f","i","n","i","s","h","\"",","," ">>, <<"{","'","a","c","t","i","o","n","'",":"," ","'","f","i","n","i","s","h","'","}">>}

\* The ways a text is sent: bare, inside a code fence without or with a
\* language tag, and fenced with white space around it.
Wraps == {"bare", "fence", "fence_tag", "fence_space"}
Wrap(w, text) ==
    CASE w = "bare" -> text
      [] w = "fence" -> Fence \o <<"\n">> \o text \o <<"\n">> \o Fence
      [] w = "fence_tag" -> Fence \o <<"j","s","o","n","\n">> \o text \o <<"\n">> \o Fence
      [] w = "fence_space" -> <<" ","\n">> \o Fence \o <<"j","s","o","n","\n">> \o text \o <<"\n">> \o Fence \o <<"\n"," "," ">>

\* What a call of parse_action_from_text(Wrap(wrap, bare)) returned or
\* raised; data is the JSON value bare is the text of (None when it is none).
ParseReturn(data, bare, wrap) ==
    [call |-> "parse", data |-> data, bare |-> bare, wrap |-> wrap,
     result |-> parse_action_from_text(Wrap(wrap, bare))]

\* One call in a process that has made none (the function keeps no state, so
\* a second call adds nothing).
ParseText(data, bare, wrap) ==
    /\ ret.call = "init"
    /\ ret' = ParseReturn(data, bare, wrap)
    /\ UNCHANGED << process, task_fields, episode_state >>

NextParse ==
    \/ \E action \in DiscriminatorValues, tool_name \in ToolNameValues,
          arguments \in ArgumentsValues, final_summary \in SummaryValues, wrap \in Wraps :
          LET data == FieldsObject(action, tool_name, arguments, final_summary)
          IN  ParseText(Some(data), json_dumps(data), wrap)
    \/ \E data \in OtherValues, wrap \in Wraps : ParseText(Some(data), json_dumps(data), wrap)
    \/ \E text \in BrokenTexts, wrap \in Wraps : ParseText(None, text, wrap)

SpecParse == Init /\ [][NextParse]_vars

\* the field k of the object r was made of (None when absent or no object)
FieldOf(r, k) ==
    IF r.data.some /\ r.data.val.t = "obj" /\ HasKey(r.data.val.kv, k)
    THEN Some(DictGet(r.data.val.kv, k, JNull)) ELSE None

Discriminator(r) == FieldOf(r, <<"a","c","t","i","o","n">>)
IsCallTool(r) == Discriminator(r) = Some(JStr(<<"c","a","l","l","_","t","o","o","l">>))
IsFinish(r) == Discriminator(r) = Some(JStr(<<"f","i","n","i","s","h">>))

IsStrField(f) == f.some /\ f.val.t = "str"
RefusedField(f) == ~f.some \/ f.val.t \in {"null", "list", "obj"}

C28_FenceChangesNothing ==
    (ret.call = "parse" /\ ret.wrap # "bare") =>
        ret.result = parse_action_from_text(ret.bare)

\* a Finish parsed from a fenced text with a language tag and white space
\* around the fence
C28_Witness ==
    /\ ret.call = "parse"
    /\ ret.wrap = "fence_space"
    /\ ret.result = ParseOk(FinishAction(<<"d","o","n","e">>))
    /\ parse_action_from_text(ret.bare) = ParseOk(FinishAction(<<"d","o","n","e">>))

\* ---------------------------------------------------------------- tool calls that cannot run

\* Calls of a tool that does not exist, and calls without a required
\* argument (absent, or empty): of a read, of the lab read, of the write.
ErrorCalls ==
    { ToolCallAction(<<"g","e","t","_","w","e","a","t","h","e","r">>, <<>>),
      ToolCallAction(<<>>, <<KV(<<"p","a","t","i","e","n","t","_","i","d">>, JStr(<<"S","1","1","1","1","1","1","1">>))>>),
      ToolCallAction(get_patient_basic, <<>>),
      ToolCallAction(<<"s","e","a","r","c","h","_","o","b","s","e","r","v","a","t","i","o","n","s">>, <<KV(<<"p","a","t","i","e","n","t","_","i","d">>, JStr(<<>>))>>),
      ToolCallAction(get_recent_labs, <<KV(<<"p","a","t","i","e","n","t","_","i","d">>, JStr(<<"S","1","1","1","1","1","1","1">>))>>),
      ToolCallAction(post_fhir_resource, <<>>),
      ToolCallAction(post_fhir_resource, <<KV(<<"r","e","s","o","u","r","c","e","_","t","y","p","e">>, JStr(<<"O","b","s","e","r","v","a","t","i","o","n">>))>>) }

\* An episode of such calls, of one read that runs, and of a finish.
NextToolErrors ==
    \/ AgentReset
    \/ \E action \in ErrorCalls \cup {ToolCallAction(get_patient_basic, <<KV(<<"p","a","t","i","e","n","t","_","i","d">>, JStr(<<"S","1","1","1","1","1","1","1">>))>>)} :
          \/ StepAfterDone(action)
          \/ \E srv \in ServerOutcomes(action.tool_name) : StepToolCall(action, srv)
    \/ \E g \in GraderOutcomes : StepFinish(FinishAction(<<"F","I","N","I","S","H","(","[","\"","4","2","\"","]",")">>), g)

SpecToolErrors == Init /\ [][NextToolErrors]_vars

\* the step of a running episode was given a call that cannot run
ErrorCallStepped == ~done /\ ret'.call = "step" /\ ret'.action.some /\ ret'.action.val \in ErrorCalls

\* the step returned, counted, and appended the call and a second entry
ErrorCallProcessed ==
    /\ ~ret'.raised
    /\ SubSeq(ret'.result_text.val, 1, 6) = <<"E","r","r","o","r",":">>
    /\ current_step' = current_step + 1
    /\ Len(history') = Len(history) + 2
    /\ SubSeq(history', 1, Len(history)) = history
    /\ history'[Len(history) + 1] = HistoryItem("agent", format_tool_call_for_history(ret'.action.val))
    /\ history'[Len(history) + 2].role = "user"
    /\ done' = (current_step' >= MaxSteps)
    /\ ret'.done = done'

\* C22 as stated: the second entry holds the error string, whatever the tool.
C22_Original ==
    [][ErrorCallStepped =>
         /\ ErrorCallProcessed
         /\ history'[Len(history) + 2].content = ret'.result_text.val]_vars

\* C22: a call of an unknown tool or without a required argument does not
\* raise: the tool executor returns an error string, the step counts, appends
\* two history entries and ends the episode only at the step limit.  The
\* second entry holds the error string, except for the write tool, whose
\* entry is the fixed acknowledgment; the Observation's last result is the
\* error string for every tool.
C22_ErrorCallIsAStep ==
    [][ErrorCallStepped =>
         /\ ErrorCallProcessed
         /\ history'[Len(history) + 2].content =
               IF ret'.action.val.tool_name = post_fhir_resource
               THEN POST_ACK ELSE ret'.result_text.val
         /\ ret'.obs.last_tool_result_brief = ret'.result_text]_vars

\* a call of an unknown tool came as the last step the limit allows
C22_Witness ==
    /\ ret.call = "step"
    /\ ~ret.raised
    /\ ret.action = Some(ToolCallAction(<<"g","e","t","_","w","e","a","t","h","e","r">>, <<>>))
    /\ current_step = MaxSteps
    /\ done
    /\ Len(history) = 2 * MaxSteps

\* C23: a failure of the tool executor never leaves step as an exception: the
\* step returns, and the history holds the two entries of every counted tool
\* step (so at least 2 * current_step - 1 entries, the Finish entry being one).
C23_ToolFailureStaysInside ==
    /\ (ret.call = "step" => ~ret.raised)
    /\ Len(history) >= 2 * current_step - 1

\* ---------------------------------------------------------------- green_agent_server

\* The callers of the HTTP server, and the texts they post to /step.
Callers == {"A", "B"}
ServerTexts ==
    { <<"{","\"","a","c","t","i","o","n","\"",":"," ","\"","c","a","l","l","_","t","o","o","l","\"",","," ","\"","t","o","o","l","_","n","a","m","e","\"",":"," ","\"","g","e","t","_","p","a","t","i","e","n","t","_","b","a","s","i","c","\"","}">>,
      <<"{","\"","a","c","t","i","o","n","\"",":"," ","\"","f","i","n","i","s","h","\"",","," ","\"","f","i","n","a","l","_","s","u","m","m","a","r","y","\"",":"," ","\"","F","I","N","I","S","H","(","[","4","2","]",")","\"","}">>,
      <<"n","o","t"," ","a","n"," ","a","c","t","i","o","n">> }

\* A caller posts to /reset or /step; the server takes one request at a time.
\* ret holds the request until it is served.
Send(c, kind, text) ==
    /\ server.caller = "none"
    /\ server' = [server EXCEPT !.caller = c]
    /\ ret' = [call |-> "request", kind |-> kind, text |-> text]
    /\ UNCHANGED << fhir_base_url, tasks, refsol_available, executor, task_fields, episode_state >>

\* A caller posts to /reset; named is the task_id of its ResetRequest (line 28),
\* None when the request names no task.
SendReset(c, named) ==
    /\ server.caller = "none"
    /\ server' = [server EXCEPT !.caller = c]
    /\ ret' = [call |-> "request", kind |-> "reset", text |-> <<>>, task_id |-> named]
    /\ UNCHANGED << fhir_base_url, tasks, refsol_available, executor, task_fields, episode_state >>

\* reset_episode: the global agent is replaced by a new GreenHealthcareAgent,
\* which is then reset; a reset that raises (answered with status 500) leaves
\* the new agent in place.
HandleReset ==
    /\ ret.call = "request"
    /\ ret.kind = "reset"
    /\ IF tasks = <<>>
       THEN /\ task_id' = ""
            /\ task_description' = ""
            /\ patient_id' = ""
            /\ gold_answer' = <<>>
            /\ task_raw_data' = None
            /\ current_step' = 0
            /\ done' = FALSE
            /\ last_tool_call' = None
            /\ last_tool_result_brief' = None
            /\ history' = <<>>
            /\ ret' = [call |-> "reset", raised |-> TRUE, error |-> "RuntimeError"]
            /\ UNCHANGED process
       ELSE \E i \in 1..Len(tasks) :
                ResetTo(tasks[i], None, [task_id |-> None, task_description |-> None])

\* step_episode: status 400 without an agent, else agent.step on the global
\* agent (an exception that leaves it is answered with status 500).
HandleStep ==
    /\ ret.call = "request"
    /\ ret.kind = "step"
    /\ IF ~server.agent
       THEN /\ ret' = [call |-> "http", status |-> 400]
            /\ UNCHANGED << process, task_fields, episode_state >>
       ELSE AgentStep(ret.text)

\* The answer reaches the caller.  server.agent: the global agent is set once
\* a /reset was served; server.running: the callers whose last answer showed
\* them an episode that is not done.
Deliver ==
    /\ server.caller # "none"
    /\ ret.call # "request"
    /\ server' = [ caller |-> "none",
                   agent |-> server.agent \/ ret.call = "reset",
                   running |->
                       IF ret.call = "reset" /\ ~ret.raised
                       THEN server.running \cup {server.caller}
                       ELSE IF ret.call = "step" /\ ~ret.raised /\ ret.done
                       THEN server.running \ {server.caller}
                       ELSE server.running ]
    /\ UNCHANGED << fhir_base_url, tasks, refsol_available, executor, task_fields, episode_state, ret >>

NextServer ==
    \/ \E c \in Callers, named \in ResetTaskIds : SendReset(c, named)
    \/ \E c \in Callers, text \in ServerTexts : Send(c, "step", text)
    \/ HandleReset
    \/ HandleStep
    \/ Deliver

SpecServer == Init /\ [][NextServer]_vars

\* C25: no episode state is shared between callers: while a caller is running
\* an episode, serving a reset or a step of another caller changes neither
\* the step count, the done flag, the task nor the history of that episode.
C25_CallersShareNothing ==
    [][ ( /\ ret.call = "request"
          /\ ret'.call # "request"
          /\ \E d \in server.running : d # server.caller )
        => UNCHANGED << current_step, done, task_id, history >> ]_vars

\* r records a call of step (of the episode or of the agent) that returned
RewardReturned(r) == r.call \in {"step", "agent_step"} /\ ~r.raised

\* C24: every reward is 0.0 or 1.0, and a step that does not process a Finish
\* (a tool call, the step that hits the limit, a step after done, a malformed
\* turn) returns 0.0.
C24_OnlyFinishScores ==
    RewardReturned(ret) =>
        /\ ret.reward \in {0, 1}
        /\ ~IsFinishStep(ret) => ret.reward = 0

\* a Finish scored 1.0 as the second step of an episode whose first step, a
\* tool call, returned 0.0
C24_Witness ==
    /\ IsFinishStep(ret)
    /\ ret.reward = 1
    /\ current_step = 2
    /\ Len(history) = 3

\* r records a step that took the last branch of EpisodeManager.step
IsUnknownActionStep(r) ==
    /\ r.call = "step"
    /\ r.action.some
    /\ r.action.val.action \notin {"call_tool", "finish"}

\* C26: every action that GreenHealthcareAgent.step hands to
\* EpisodeManager.step is a ToolCall or a Finish; the branch for any other
\* action is never taken and its warning is never returned.
C26_OnlyKnownActionsReachStep ==
    /\ ~IsUnknownActionStep(ret)
    /\ (ret.call = "step" /\ ~ret.raised) => ret.info # [warning |-> "unknown action type"]

\* a text with an unrecognized discriminator was turned away in an episode
\* whose first step, parsed from a text, was a tool call
C26_Witness ==
    /\ IsParseError(ret)
    /\ ret.text = <<"{","\"","a","c","t","i","o","n","\"",":"," ","\"","d","a","n","c","e","\"","}">>
    /\ ret.info.error = "ValueError"
    /\ current_step = 1
    /\ last_tool_call.some
    /\ Len(history) = 2

\* The lists that the substrings of s from a "[" to a "]" decode to.
BracketedLists(s) ==
    { json_loads(SubSeq(s, i, j)).val :
        <<i, j>> \in { p \in (1..Len(s)) \X (1..Len(s)) :
                         /\ p[1] < p[2]
                         /\ s[p[1]] = "["
                         /\ s[p[2]] = "]"
                         /\ json_loads(SubSeq(s, p[1], p[2])).ok
                         /\ json_loads(SubSeq(s, p[1], p[2])).val.t = "list" } }

\* C27 as stated: a summary that holds a bracketed substring that decodes to a
\* list yields such a list.
C27_Original ==
    Extracting(ret) =>
        LET s == ret.action.val.final_summary
            answer == ret.info.evaluation.extracted_answer
        IN  BracketedLists(s) # {} => (answer.some /\ answer.val \in BracketedLists(s))

\* C27: the extractor takes the answer of the first strategy that succeeds, in
\* the order bracket scan, FINISH wrapper, whole text, text patterns; the
\* bracket scan tries the bracketed candidates of its pattern (leftmost first,
\* not overlapping, one level of nesting, a bracket inside a text counted as a
\* bracket) and its list is returned even if the summary also holds a FINISH
\* wrapper, decodes as a whole, or holds a labeled value.
C27_FirstStrategyWins ==
    Extracting(ret) =>
        LET s == ret.action.val.final_summary
            answer == ret.info.evaluation.extracted_answer
        IN  /\ answer = IF Strategy1(s).some THEN Strategy1(s)
                        ELSE IF Strategy2(s).some THEN Strategy2(s)
                        ELSE IF Strategy3(s).some THEN Strategy3(s)
                        ELSE Strategy4(s)
            /\ \A p \in MixedExpected : s = p[1] => answer = Some(p[2])

\* the list of the bracket scan was returned from a summary whose FINISH
\* wrapper and whose label would each have given another answer
C27_Witness ==
    /\ Extracting(ret)
    /\ ret.action.val.final_summary = <<"[","\"","a","\"","]"," ","F","I","N","I","S","H","(","\"","b","\"",")"," ","a","n","s","w","e","r",":"," ","X","1","2">>
    /\ ret.info.evaluation.extracted_answer = Some(JList(<< JStr(<<"a">>) >>))
    /\ Strategy2(ret.action.val.final_summary) = Some(JList(<< JStr(<<"b">>) >>))
    /\ Strategy4(ret.action.val.final_summary) = Some(JList(<< JStr(<<"X","1","2">>) >>))

\* C29: the grader of a Finish is handed the history with the FINISH entry of
\* this Finish as its last entry, after the agent and environment entries of
\* the tool calls, in order.
C29_GraderSeesWholeHistory ==
    (IsFinishStep(ret) /\ ret.graded.some) =>
        /\ ret.handed = Some(history)
        /\ LastItem(history) = HistoryItem("agent", <<"F","I","N","I","S","H",":"," ">> \o ret.action.val.final_summary)
        /\ \A i \in 1..(Len(history) - 1) :
              history[i].role = IF i % 2 = 1 THEN "agent" ELSE "user"

\* a Finish was graded after one tool call: the grader got three entries
C29_Witness ==
    /\ IsFinishStep(ret)
    /\ ret.graded.some
    /\ Len(history) = 3
    /\ ret.handed = Some(history)
    /\ history[1].role = "agent"
    /\ history[2].role = "user"

\* ---------------------------------------------------------------- GreenExecutor

\* What the purple agent answers to an observation: a text, or the request
\* fails (None).
PurpleAnswers ==
    { None,
      Some(<<"{","\"","a","c","t","i","o","n","\"",":"," ","\"","c","a","l","l","_","t","o","o","l","\"",","," ","\"","t","o","o","l","_","n","a","m","e","\"",":"," ","\"","g","e","t","_","p","a","t","i","e","n","t","_","b","a","s","i","c","\"",","," ","\"","a","r","g","u","m","e","n","t","s","\"",":"," ","{","\"","p","a","t","i","e","n","t","_","i","d","\"",":"," ","\"","S","1","1","1","1","1","1","1","\"","}","}">>),
      Some(<<"{","\"","a","c","t","i","o","n","\"",":"," ","\"","f","i","n","i","s","h","\"",","," ","\"","f","i","n","a","l","_","s","u","m","m","a","r","y","\"",":"," ","\"","F","I","N","I","S","H","(","[","4","2","]",")","\"","}">>),
      Some(<<"n","o","t"," ","a","n"," ","a","c","t","i","o","n">>) }

\* the generator yields item and goes on at pc
Yield(item, pc) == [executor EXCEPT !.out = Append(@, item), !.pc = pc]

\* POST /assess: a new GreenExecutor starts run_assessment (lines 60-79); an
\* empty purple_agent endpoint raises ValueError.
ExecBegin(has_endpoint) ==
    /\ executor.pc \in {"idle", "ended"}
    /\ executor' = [pc |-> IF has_endpoint THEN "reset" ELSE "except",
                    step |-> 0, done |-> FALSE, out |-> <<>>,
                    ending |-> IF has_endpoint THEN "none" ELSE "exception",
                    completed |-> 0]
    /\ ret' = [call |-> "request", kind |-> "reset", text |-> <<>>]
    /\ UNCHANGED << fhir_base_url, tasks, refsol_available, server, task_fields, episode_state >>

\* lines 73-82: a new GreenHealthcareAgent and its reset(), the two calls
\* reset_episode makes
ExecReset ==
    /\ executor.pc = "reset"
    /\ HandleReset

\* lines 83-99: the first task update, or the exception of reset
ExecAfterReset ==
    /\ executor.pc = "reset"
    /\ ret.call = "reset"
    /\ executor' = IF ret.raised
                   THEN [executor EXCEPT !.pc = "except", !.ending = "exception"]
                   ELSE Yield("task_update", "loop")
    /\ UNCHANGED << fhir_base_url, tasks, refsol_available, server, task_fields, episode_state, ret >>

\* lines 101-145: the loop test, the purple agent's answer, its parse, and
\* the task update of a turn
ExecLoop(answer) ==
    /\ executor.pc = "loop"
    /\ IF executor.done \/ executor.step >= MaxSteps
       THEN /\ executor' = [executor EXCEPT !.pc = "artifact",
                               !.ending = IF executor.done THEN "done" ELSE "budget"]
            /\ UNCHANGED ret
       ELSE IF ~answer.some
       THEN /\ executor' = [Yield("task_update", "artifact")
                               EXCEPT !.step = @ + 1, !.ending = "communication"]
            /\ UNCHANGED ret
       ELSE IF ~parse_action_from_text(answer.val).ok
       THEN /\ executor' = [Yield("task_update", "artifact")
                               EXCEPT !.step = @ + 1, !.ending = "parse"]
            /\ UNCHANGED ret
       ELSE /\ executor' = [Yield("task_update", "step") EXCEPT !.step = @ + 1]
            /\ ret' = [call |-> "request", kind |-> "step", text |-> answer.val]
    /\ UNCHANGED << fhir_base_url, tasks, refsol_available, server, task_fields, episode_state >>

\* line 148: self.agent.step(action_json)
ExecStep ==
    /\ executor.pc = "step"
    /\ ret.call = "request"
    /\ AgentStep(ret.text)

\* a loop that yields the completion update and goes on asking
ExecAfterStep_ForgetsDone ==
    /\ executor.pc = "step"
    /\ ret.call # "request"
    /\ executor' = IF ret.raised
                   THEN [executor EXCEPT !.pc = "except", !.ending = "exception"]
                   ELSE IF ret.done
                   THEN [Yield("task_update", "loop") EXCEPT !.completed = @ + 1]
                   ELSE [executor EXCEPT !.pc = "loop"]
    /\ UNCHANGED << fhir_base_url, tasks, refsol_available, server, task_fields, episode_state, ret >>

\* lines 148-162: what step returned, the completion update of a step that
\* ended the episode (counted in completed), or the exception of step
ExecAfterStep ==
    /\ executor.pc = "step"
    /\ ret.call # "request"
    /\ executor' = IF ret.raised
                   THEN [executor EXCEPT !.pc = "except", !.ending = "exception"]
                   ELSE IF ret.done
                   THEN [Yield("task_update", "loop") EXCEPT !.done = TRUE, !.completed = @ + 1]
                   ELSE [executor EXCEPT !.pc = "loop"]
    /\ UNCHANGED << fhir_base_url, tasks, refsol_available, server, task_fields, episode_state, ret >>

\* lines 164-172: the evaluation artifact
ExecArtifact ==
    /\ executor.pc = "artifact"
    /\ executor' = Yield("evaluation_result", "ended")
    /\ UNCHANGED << fhir_base_url, tasks, refsol_available, server, task_fields, episode_state, ret >>

\* an except branch that yields nothing
ExecExcept_Silent ==
    /\ executor.pc = "except"
    /\ executor' = [executor EXCEPT !.pc = "ended"]
    /\ UNCHANGED << fhir_base_url, tasks, refsol_available, server, task_fields, episode_state, ret >>

\* lines 174-184: the error artifact
ExecExcept ==
    /\ executor.pc = "except"
    /\ executor' = Yield("evaluation_error", "ended")
    /\ UNCHANGED << fhir_base_url, tasks, refsol_available, server, task_fields, episode_state, ret >>

NextExecutor ==
    \/ \E has_endpoint \in BOOLEAN : ExecBegin(has_endpoint)
    \/ ExecReset
    \/ ExecAfterReset
    \/ \E answer \in PurpleAnswers : ExecLoop(answer)
    \/ ExecStep
    \/ ExecAfterStep
    \/ ExecArtifact
    \/ ExecExcept

SpecExecutor == Init /\ [][NextExecutor]_vars

C31_MalformedTurnGoesOn ==
    executor.ending = "parse" => executor.pc \in {"loop", "step"}

\* the run is inside self.agent.step(action_json), line 148
AtStepCall == executor.pc = "step" /\ ret.call = "request"

\* run_assessment under the assumption that every call it makes returns: a
\* run that has begun takes its next step. ExecStep is the one action enabled
\* at the step call and is enabled in every such state, so its weak fairness
\* is that the run is not at the step call for ever.
RunFairness ==
    /\ WF_vars(ExecReset)
    /\ WF_vars(ExecAfterReset)
    /\ WF_vars(\E answer \in PurpleAnswers : ExecLoop(answer))
    /\ []<>~AtStepCall
    /\ WF_vars(ExecAfterStep)
    /\ WF_vars(ExecArtifact)
    /\ WF_vars(ExecExcept)

SpecExecutorFair == Init /\ [][NextExecutor]_vars /\ RunFairness

RunInProgress == executor.pc \in {"reset", "loop", "step", "artifact", "except"}

\* at most max_steps observations are sent; the completion update was
\* yielded exactly when a step reported done; between turns the loop's done
\* flag is the episode's
RunWithinBudget ==
    /\ executor.step <= MaxSteps
    /\ executor.completed = (IF executor.done THEN 1 ELSE 0)
    /\ executor.pc \in {"loop", "artifact"} => executor.done = done

\* once a step reported done, the run sends no further observation
NoRequestAfterDone ==
    executor.done /\ executor.pc # "ended" => executor'.step = executor.step

\* C32: run_assessment ends whenever every call to the purple agent returns;
\* it sends at most max_steps observations, sends none after the episode
\* reported done, and yields the completion update exactly when the episode
\* reported done.
C32_RunTerminates ==
    /\ []RunWithinBudget
    /\ [][NoRequestAfterDone]_vars
    /\ RunInProgress ~> executor.pc = "ended"

\* a run that ended because its step budget was used up by two tool calls,
\* the second of which the episode answered with done
C32_Witness ==
    /\ executor.pc = "ended"
    /\ executor.step = MaxSteps
    /\ executor.done
    /\ executor.completed = 1
    /\ ret.call = "step" /\ ~ret.raised /\ ret.info = [reason |-> "max_steps_reached"]

\* C33: a /reset request that names a task_id starts the episode of the task
\* with that id.
C33_NamedTaskIsRun ==
    [][ ( /\ ret.call = "request"
          /\ ret.kind = "reset"
          /\ ret.task_id.some
          /\ ret'.call = "reset"
          /\ ~ret'.raised )
        => task_id' = ret.task_id.val ]_vars

\* C34: the server executes a /step only on an episode that a successful
\* /reset started: whenever a step was executed, the episode has a task.
C34_StepNeedsStartedEpisode ==
    ret.call \in {"step", "agent_step"} => task_id # ""

\* C35: the step count stays within 0..max_steps, in the episode and in every
\* Observation that reset or step returned.
C35_StepWithinLimit ==
    /\ current_step \in 0..MaxSteps
    /\ (ret.call \in {"reset", "step"} /\ ~ret.raised) => ret.obs.step \in 0..MaxSteps

\* the history entry of a Finish
IsFinishEntry(item) == item.role = "agent" /\ StartsAt(item.content, 1, <<"F","I","N","I","S","H",":"," ">>)

\* C36: the history is made of the pairs (agent entry, environment entry) of
\* the tool calls, followed by the FINISH entry if a Finish was processed: its
\* length is 2 x (tool calls) + (1 for a Finish), a FINISH entry is unique and
\* last, and the step count is the number of agent entries.
C36_StepCountIsAgentEntries ==
    LET n == Len(history)
        agents == { i \in 1..n : history[i].role = "agent" }
    IN  /\ \A i \in 1..n : history[i].role = IF i % 2 = 1 THEN "agent" ELSE "user"
        /\ \A i \in 1..n : IsFinishEntry(history[i]) <=> (i = n /\ n % 2 = 1)
        /\ current_step = Cardinality(agents)

\* a step on an episode that is done calls neither the ToolExecutor nor the
\* Grader
NothingRunsAfterDone ==
    (done /\ ret'.call = "step") =>
        /\ ~ret'.raised
        /\ ~ret'.result_text.some
        /\ ~ret'.graded.some

\* a step that had the Grader called is a Finish that ended an episode which
\* was not done
GradedByTheFinish ==
    (ret'.call = "step" /\ ~ret'.raised /\ ret'.graded.some) =>
        /\ ~done
        /\ done'
        /\ IsFinishStep(ret')

\* C37: the Grader is called only by the step that processes a Finish on an
\* episode that is not done, which ends the episode, so at most once in an
\* episode; a step on an episode that is done (after a Finish or after the
\* step limit) calls neither the ToolExecutor nor the Grader.
C37_GradedOnceNothingAfterDone ==
    [][NothingRunsAfterDone /\ GradedByTheFinish]_vars

\* a step was made after a Finish that the grader had graded: it ran nothing,
\* and the FINISH entry is still the last of the history
C37_Witness ==
    /\ IsAfterDoneStep(ret)
    /\ ~ret.result_text.some
    /\ ~ret.graded.some
    /\ done
    /\ refsol_available
    /\ task_raw_data.some
    /\ Len(history) = 3
    /\ IsFinishEntry(history[3])

\* C38: the done flag that GreenHealthcareAgent.step returns is the done field
\* of the Observation in the prompt it returns.
C38_DoneFlagIsObservationDone ==
    (ret.call \in {"step", "agent_step"} /\ ~ret.raised) => ret.done = ret.obs.done

\* C39: a Finish that is the step number max_steps of its episode is evaluated
\* like any Finish: the step returns done, the reward and the evaluation of
\* the evaluation procedure, and an info with final_summary and evaluation,
\* not the reason of the step limit.
C39_FinishAtLimitIsEvaluated ==
    (IsFinishStep(ret) /\ current_step = MaxSteps) =>
        /\ ~ret.raised
        /\ ret.done
        /\ ret.obs.step = MaxSteps
        /\ DOMAIN ret.info = {"final_summary", "evaluation", "task_id", "patient_id"}
        /\ ret.info.final_summary = ret.action.val.final_summary
        /\ \E g \in GraderOutcomes :
              LET e == evaluate_answer(ret.action.val.final_summary, refsol_available,
                                       task_raw_data, g)
              IN  /\ ret.reward = e.reward
                  /\ ret.info.evaluation = e.evaluation
                  /\ ret.graded = e.graded

\* after max_steps - 1 tool calls that returned, a Finish was graded and
\* scored 1.0 as step number max_steps
C39_Witness ==
    /\ IsFinishStep(ret)
    /\ current_step = MaxSteps
    /\ Len(history) = 2 * (MaxSteps - 1) + 1
    /\ ret.graded.some
    /\ ret.reward = 1
    /\ ret.info.evaluation.correct

====
